---------------------------- MODULE Spec2Model ----------------------------
(***************************************************************************)
(* Valuation regression and comparison engine:                             *)
(* backend/app/services/regression_models.py, class                        *)
(* PropertyRegressionModel.                                                *)
(*                                                                         *)
(* Numbers.  Python floats are modelled by integers.  Square footage and   *)
(* prices are whole numbers; a standardized feature value is kept in       *)
(* fixed point with FP units per 1.0.  Optional values are None (<<>>) or  *)
(* Some(v) (<<v>>).                                                        *)
(*                                                                         *)
(* Library code.  StandardScaler, LinearRegression, Ridge and              *)
(* RandomForestRegressor are scikit-learn objects.  The training batches   *)
(* of this model vary total_sqft and sale_price only, so every other       *)
(* column has zero variance, is scaled to 0 and receives coefficient 0;    *)
(* the least-squares and ridge solutions are then the single-column ones   *)
(* computed by model_fit.  A random forest is abstracted to what the       *)
(* program relies on: it has no coef_, and its prediction is the target of *)
(* a training sample (the nearest one in total_sqft).  The shuffled 80/20  *)
(* split is a choice of the held-out index set of the right size.          *)
(***************************************************************************)
EXTENDS Integers, Sequences, FiniteSets, TLC

VARIABLES
    scaler,             \* self.scaler: the one StandardScaler of the instance
    models,             \* self.models: model_type -> the one estimator object of that type
    trained_model,      \* self.trained_model: NoneRef or the key of the estimator object it refers to
    trained_model_type, \* self.trained_model_type
    feature_names,      \* self.feature_names
    calls,              \* history: number of build_room_dimension_model calls begun
    last_success,       \* history: model_type of the most recent call that returned results
    ret,                \* the last operation and what it returned or raised
    db_row,             \* _parse_property_row: the database row given
    parsed,             \* _parse_property_row: whether it has run, and what it returned
    t_pc,               \* a caller inside build_room_dimension_model: the statement it is at
    t_local,            \* that caller's local variables
    p_pc,               \* a caller inside predict_price: the statement it is at
    p_local,            \* that caller's local variables
    p_ret,              \* what that caller's predict_price returned
    db_rows,            \* extract_property_features: the rows the query returned
    extracted,          \* extract_property_features: what it returned
    comparison,         \* compare_properties: what it returned
    response,           \* an analytics route: the response it sent
    requests            \* the analytics requests received, each with its own instance

inst_vars == <<scaler, models, trained_model, trained_model_type, feature_names,
               calls, last_success, ret>>

parse_vars == <<db_row, parsed>>

conc_vars == <<t_pc, t_local, p_pc, p_local, p_ret>>

req_vars == <<db_rows, extracted, comparison, response, requests>>

vars == <<inst_vars, parse_vars, conc_vars, req_vars>>

\* ---------------------------------------------------------------- bounds
MaxCalls == 2
FP == 100

\* ---------------------------------------------------------------- values
None == <<>>
Some(v) == <<v>>
IsNone(o) == o = <<>>
Val(o) == o[1]

NoneRef == "None"
ModelTypes == {"linear", "ridge", "random_forest"}
RequestedTypes == ModelTypes \cup {"xgboost"}

Min(a, b) == IF a < b THEN a ELSE b

RECURSIVE SumSeq(_)
SumSeq(s) == IF s = <<>> THEN 0 ELSE Head(s) + SumSeq(Tail(s))

\* floor of the square root, by bisection: lo * lo <= v < hi * hi
RECURSIVE ISqrtBetween(_, _, _)
ISqrtBetween(v, lo, hi) ==
    IF hi - lo <= 1 THEN lo
    ELSE LET mid == (lo + hi) \div 2
         IN  IF mid * mid <= v THEN ISqrtBetween(v, mid, hi) ELSE ISqrtBetween(v, lo, mid)

ISqrt(v) == IF v <= 0 THEN 0 ELSE ISqrtBetween(v, 0, Min(v + 1, 46340))

Abs(x) == IF x < 0 THEN -x ELSE x

\* -------------------------------------------------- PropertyFeatures
PropertyFeatures(id, sqft, price) ==
    [property_id |-> id, bedrooms |-> 2, bathrooms |-> 1, total_sqft |-> sqft,
     room_count |-> 5, avg_room_sqft |-> 200, largest_room_sqft |-> 250,
     smallest_room_sqft |-> 0,
     has_garage |-> 0, has_fireplace |-> 0, has_balcony |-> 0, has_closets |-> 0,
     num_doors |-> 0, num_windows |-> 0, sale_price |-> price]

FeatureNames ==
    <<"total_sqft", "bedrooms", "bathrooms", "room_count", "avg_room_sqft",
      "largest_room_sqft", "has_garage", "has_fireplace", "has_balcony",
      "has_closets", "num_doors", "num_windows">>

NumFeatures == Len(FeatureNames)

\* one row of X in _prepare_feature_matrix
matrix_row(prop) ==
    <<prop.total_sqft, prop.bedrooms, prop.bathrooms, prop.room_count,
      prop.avg_room_sqft, prop.largest_room_sqft, prop.has_garage,
      prop.has_fireplace, prop.has_balcony, prop.has_closets,
      prop.num_doors, prop.num_windows>>

prepare_feature_matrix(features_list) ==
    [X |-> [i \in 1..Len(features_list) |-> matrix_row(features_list[i])],
     y |-> [i \in 1..Len(features_list) |-> Val(features_list[i].sale_price)],
     feature_names |-> FeatureNames]

\* variant: bedrooms and total_sqft change places
feature_vector_bedrooms_first(features) ==
    <<features.bedrooms, features.total_sqft, features.bathrooms,
      features.room_count, features.avg_room_sqft, features.largest_room_sqft,
      features.has_garage, features.has_fireplace, features.has_balcony,
      features.has_closets, features.num_doors, features.num_windows>>

\* the feature vector built inside predict_price
feature_vector(features) ==
    <<features.total_sqft, features.bedrooms, features.bathrooms,
      features.room_count, features.avg_room_sqft, features.largest_room_sqft,
      features.has_garage, features.has_fireplace, features.has_balcony,
      features.has_closets, features.num_doors, features.num_windows>>


\* ------------------------------------------------------------ column helpers
Column(X, j) == [i \in 1..Len(X) |-> X[i][j]]

Mean(s) == SumSeq(s) \div Len(s)

Variance(s) ==
    LET m == Mean(s)
    IN  SumSeq([i \in 1..Len(s) |-> (s[i] - m) * (s[i] - m)]) \div Len(s)

\* --------------------------------------------------------- StandardScaler
UnfittedScaler == [fitted |-> FALSE, fittedBy |-> 0, mean_ |-> <<>>, scale_ |-> <<>>]

\* StandardScaler.fit: per-column mean and standard deviation; a column of
\* zero variance gets scale 1
scaler_fit(X, call) ==
    [fitted   |-> TRUE,
     fittedBy |-> call,
     mean_    |-> [j \in 1..NumFeatures |-> Mean(Column(X, j))],
     scale_   |-> [j \in 1..NumFeatures |->
                     LET sd == ISqrt(Variance(Column(X, j)))
                     IN  IF sd = 0 THEN 1 ELSE sd]]

\* StandardScaler.transform of one row, in fixed point
scaler_transform(sc, row) ==
    [j \in 1..NumFeatures |-> ((row[j] - sc.mean_[j]) * FP) \div sc.scale_[j]]

\* ------------------------------------------------------------- estimators
UnfittedModel(kind) ==
    [kind |-> kind, fitted |-> FALSE, fittedBy |-> 0,
     coef_ |-> <<>>, intercept_ |-> 0, samples |-> <<>>,
     feature_importances_ |-> <<>>]

\* Ridge(alpha=1.0); LinearRegression is the unpenalized case
Alpha(kind) == IF kind = "ridge" THEN 1 ELSE 0

\* variant: the sign of the coefficient is reversed
sqft_coefficient_negated(kind, Xs, y) ==
    LET ym  == Mean(y)
        num == SumSeq([i \in 1..Len(Xs) |-> Xs[i][1] * (y[i] - ym)])
        den == (SumSeq([i \in 1..Len(Xs) |-> Xs[i][1] * Xs[i][1]])
                 + Alpha(kind) * FP * FP) \div FP
    IN  IF den = 0 THEN 0 ELSE -(num \div den)

\* least squares of y on the scaled total_sqft column (the only column that
\* varies), with the L2 penalty Alpha; 0 when the column is constant
sqft_coefficient(kind, Xs, y) ==
    LET ym  == Mean(y)
        num == SumSeq([i \in 1..Len(Xs) |-> Xs[i][1] * (y[i] - ym)])
        den == (SumSeq([i \in 1..Len(Xs) |-> Xs[i][1] * Xs[i][1]])
                 + Alpha(kind) * FP * FP) \div FP
    IN  IF den = 0 THEN 0 ELSE num \div den

\* a forest splits only on a column that varies, and only when the targets
\* vary: all importance is then on total_sqft, and none anywhere otherwise
forest_importances(Xs, y) ==
    LET splits == /\ \E i, k \in 1..Len(Xs) : Xs[i][1] # Xs[k][1]
                  /\ \E i, k \in 1..Len(y) : y[i] # y[k]
    IN  [j \in 1..NumFeatures |-> IF j = 1 /\ splits THEN FP ELSE 0]

\* model.fit(X_train_scaled, y_train): refits the estimator object in place
model_fit(kind, Xs, y, call) ==
    IF kind = "random_forest"
    THEN [kind |-> kind, fitted |-> TRUE, fittedBy |-> call,
          coef_ |-> <<>>, intercept_ |-> 0,
          samples |-> [i \in 1..Len(Xs) |-> <<Xs[i][1], y[i]>>],
          feature_importances_ |-> forest_importances(Xs, y)]
    ELSE [kind |-> kind, fitted |-> TRUE, fittedBy |-> call,
          coef_ |-> [j \in 1..NumFeatures |->
                       IF j = 1 THEN sqft_coefficient(kind, Xs, y) ELSE 0],
          intercept_ |-> Mean(y), samples |-> <<>>,
          feature_importances_ |-> <<>>]

\* hasattr(model, 'coef_'): only a fitted linear or ridge estimator has it
has_coef(m) == m.fitted /\ m.kind \in {"linear", "ridge"}

\* the training sample nearest to xs in scaled total_sqft (the first on a tie)
NearestSample(samples, xs) ==
    LET d(i) == Abs(samples[i][1] - xs[1])
        best == CHOOSE i \in 1..Len(samples) :
                   /\ \A k \in 1..Len(samples) : d(i) <= d(k)
                   /\ \A k \in 1..(i - 1) : d(k) > d(i)
    IN  samples[best]

\* model.predict of one scaled row
model_predict(m, xs) ==
    IF m.kind = "random_forest"
    THEN NearestSample(m.samples, xs)[2]
    ELSE m.intercept_
           + SumSeq([j \in 1..NumFeatures |-> m.coef_[j] * xs[j]]) \div FP

\* ------------------------------------------------------------ predict_price
\* variant: the prediction returned without the clamp
Max0_unclamped(v) == v

\* Python max(0, v): v when v > 0, else the first argument 0
Max0(v) == IF v > 0 THEN v ELSE 0

\* variant: an untrained instance answers 0 instead of None
predict_price_untrained_zero(tm, ms, sc, features) ==
    IF tm = NoneRef
    THEN Some(0)
    ELSE Some(Max0(model_predict(ms[tm], scaler_transform(sc, feature_vector(features)))))

\* predict_price against given instance state; None when no model is stored
predict_price(tm, ms, sc, features) ==
    IF tm = NoneRef
    THEN None
    ELSE Some(Max0(model_predict(ms[tm], scaler_transform(sc, feature_vector(features)))))

\* ------------------------------------------------------ calculate_sqft_impact
IndexOf(s, x) == CHOOSE i \in 1..Len(s) : s[i] = x /\ \A k \in 1..(i - 1) : s[k] # x

Contains(s, x) == \E i \in 1..Len(s) : s[i] = x

\* variant: the coefficient is looked for on any estimator of the instance,
\* not on the one trained_model refers to
calculate_sqft_impact_any_coef(tm, ms, sc, names) ==
    IF tm = NoneRef \/ ~Contains(names, "total_sqft")
    THEN None
    ELSE IF \E k \in DOMAIN ms : has_coef(ms[k])
         THEN LET k == CHOOSE k \in DOMAIN ms : has_coef(ms[k])
                  sqft_idx == IndexOf(names, "total_sqft")
              IN  Some(ms[k].coef_[sqft_idx] \div sc.scale_[sqft_idx])
         ELSE None

\* variant: an instance without a trained model reports a default rate
calculate_sqft_impact_default_rate(tm, ms, sc, names) ==
    IF tm = NoneRef \/ ~Contains(names, "total_sqft")
    THEN Some(100)
    ELSE IF has_coef(ms[tm])
         THEN LET sqft_idx == IndexOf(names, "total_sqft")
                  scaler_std == IF sc.fitted THEN sc.scale_[sqft_idx] ELSE 1
              IN  Some(ms[tm].coef_[sqft_idx] \div scaler_std)
         ELSE None

\* coefficient of total_sqft divided by the scaler's deviation of that column
calculate_sqft_impact(tm, ms, sc, names) ==
    IF tm = NoneRef \/ ~Contains(names, "total_sqft")
    THEN None
    ELSE IF has_coef(ms[tm])
         THEN LET sqft_idx == IndexOf(names, "total_sqft")
                  scaler_std == IF sc.fitted THEN sc.scale_[sqft_idx] ELSE 1
              IN  Some(ms[tm].coef_[sqft_idx] \div scaler_std)
         ELSE None


\* ------------------------------------------------ build_room_dimension_model
\* the records with a known, positive price
data_with_prices(features_list) ==
    SelectSeq(features_list, LAMBDA f : ~IsNone(f.sale_price) /\ Val(f.sale_price) > 0)

\* variant: the record-count threshold off by one (4 instead of 5)
insufficient_data_four(features_list, priced) ==
    Len(features_list) < 4 \/ Len(priced) < 3

\* the two early returns: fewer than 5 records, or fewer than 3 priced ones
insufficient_data(features_list, priced) ==
    Len(features_list) < 5 \/ Len(priced) < 3

\* variant: a fixed cv=5 whatever the size of the training split
cv_folds_five(n_train) == 5

\* cv=min(5, len(X_train))
cv_folds(n_train) == Min(5, n_train)

\* cross_val_score raises ValueError unless 2 <= cv <= number of samples
cross_val_raises(cv, n_train) == cv < 2 \/ cv > n_train

\* train_test_split(test_size=0.2): ceil(0.2 n) held-out samples
NTest(n) == (n + 4) \div 5

TestSets(n) == {T \in SUBSET (1..n) : Cardinality(T) = NTest(n)}

\* the elements of s whose index is in S, in order
Pick(s, S) ==
    LET F[i \in 0..Len(s)] ==
            IF i = 0 THEN <<>>
            ELSE IF i \in S THEN Append(F[i - 1], s[i]) ELSE F[i - 1]
    IN  F[Len(s)]

train_test_split(X, y, T) ==
    [X_train |-> Pick(X, (1..Len(X)) \ T), X_test |-> Pick(X, T),
     y_train |-> Pick(y, (1..Len(y)) \ T), y_test |-> Pick(y, T)]

\* model.predict(self.scaler.transform(X_test)), lines 389 and 396
predict_rows(m, sc, X) ==
    [i \in 1..Len(X) |-> model_predict(m, scaler_transform(sc, X[i]))]

\* prices enter the sums of squares in thousands
K(v) == v \div 1000

\* sklearn.metrics.r2_score: not defined for fewer than two samples (a warning
\* and NaN); 1 - SS_res / SS_tot otherwise, and for constant y_true 1.0 when
\* the residuals are all zero and 0.0 when they are not.  In fixed point.
r2_score(y_true, y_pred) ==
    LET n == Len(y_true)
        ym == Mean(y_true)
        ss_res == SumSeq([i \in 1..n |-> K(y_true[i] - y_pred[i]) * K(y_true[i] - y_pred[i])])
        ss_tot == SumSeq([i \in 1..n |-> K(y_true[i] - ym) * K(y_true[i] - ym)])
    IN  IF n < 2 THEN [nan |-> TRUE, value |-> 0]
        ELSE IF ss_tot = 0 THEN [nan |-> FALSE, value |-> IF ss_res = 0 THEN FP ELSE 0]
        ELSE [nan |-> FALSE, value |-> FP - (ss_res * FP) \div ss_tot]

\* _get_feature_importance: the importances divided by their sum; dividing
\* by a zero sum gives NaN in every entry
get_feature_importance(m, names) ==
    LET importances ==
            IF m.kind = "random_forest" THEN m.feature_importances_
            ELSE [j \in 1..Len(m.coef_) |-> Abs(m.coef_[j])]
        total == SumSeq(importances)
    IN  IF ~(m.kind = "random_forest" \/ has_coef(m))
        THEN [nan |-> FALSE, names |-> <<>>, values |-> <<>>]
        ELSE IF total = 0
             THEN [nan |-> TRUE, names |-> names, values |-> <<>>]
             ELSE [nan |-> FALSE, names |-> names,
                   values |-> [j \in 1..Len(importances) |->
                                 (importances[j] * FP) \div total]]

\* the predictions loop: an entry per priced record whose prediction is truthy
\* (a later record with the same property_id overwrites an earlier one)
predictions_of(tm, ms, sc, priced) ==
    LET pred == [i \in 1..Len(priced) |-> predict_price(tm, ms, sc, priced[i])]
        kept == {i \in 1..Len(priced) : ~IsNone(pred[i]) /\ Val(pred[i]) # 0}
        ids == {priced[i].property_id : i \in kept}
        last(id) == CHOOSE i \in kept :
                       /\ priced[i].property_id = id
                       /\ \A k \in kept : priced[k].property_id = id => k <= i
    IN  [id \in ids |-> Val(pred[last(id)])]

\* ------------------------------------------------------------------ inputs
Mono5 ==
    <<PropertyFeatures("p1", 1000, Some(300000)), PropertyFeatures("p2", 1200, Some(340000)),
      PropertyFeatures("p3", 1400, Some(380000)), PropertyFeatures("p4", 1600, Some(420000)),
      PropertyFeatures("p5", 1800, Some(460000))>>

Four == SubSeq(Mono5, 1, 4)

TwoPriced ==
    <<PropertyFeatures("p1", 1000, Some(300000)), PropertyFeatures("p2", 1200, None),
      PropertyFeatures("p3", 1400, Some(0)), PropertyFeatures("p4", 1600, Some(-1)),
      PropertyFeatures("p5", 1800, Some(460000))>>

\* exactly 5 records with exactly 3 priced; a steep price line
Boundary ==
    <<PropertyFeatures("p1", 1000, Some(100000)), PropertyFeatures("p2", 1200, None),
      PropertyFeatures("p3", 1200, Some(300000)), PropertyFeatures("p4", 1600, Some(0)),
      PropertyFeatures("p5", 1400, Some(500000))>>

Batches == {<<>>, Four, TwoPriced, Boundary, Mono5}

Queries ==
    {[PropertyFeatures("q0", 0, None) EXCEPT !.num_doors = -1, !.num_windows = -2],
     PropertyFeatures("q1", 1000, None), PropertyFeatures("q2", 2000, None)}

\* ------------------------------------------------------------------ actions
InitInstance ==
    /\ scaler = UnfittedScaler
    /\ models = [k \in ModelTypes |-> UnfittedModel(k)]
    /\ trained_model = NoneRef
    /\ trained_model_type = NoneRef
    /\ feature_names = <<>>
    /\ calls = 0
    /\ last_success = NoneRef
    /\ ret = [op |-> "init"]

ParseIdle ==
    /\ db_row = None
    /\ parsed = [done |-> FALSE]

ConcIdle ==
    /\ t_pc = "idle"
    /\ t_local = None
    /\ p_pc = "idle"
    /\ p_local = None
    /\ p_ret = [op |-> "init"]

ReqIdle ==
    /\ db_rows = <<>>
    /\ extracted = [done |-> FALSE]
    /\ comparison = [done |-> FALSE]
    /\ response = [status |-> 0]
    /\ requests = <<>>

Init == InitInstance /\ ParseIdle /\ ConcIdle /\ ReqIdle

\* variant: the scaler is fitted on the priced records before the checks
early_return_scaler_refitted(sc, priced, vintage) ==
    IF priced = <<>> THEN sc ELSE scaler_fit(prepare_feature_matrix(priced).X, vintage)

\* lines 364-375 return before line 388 fits the scaler: the instance keeps
\* the scaler it had
early_return_scaler(sc, priced, vintage) == sc

\* build_room_dimension_model(features_list, model_type), the whole call, for
\* a batch of the given set.  T is the held-out index set drawn by the
\* shuffled split.
BuildOver(batches) ==
    /\ calls < MaxCalls
    /\ calls' = calls + 1
    /\ UNCHANGED <<parse_vars, req_vars, conc_vars>>
    /\ \E features_list \in batches, model_type \in RequestedTypes :
       \E priced \in {data_with_prices(features_list)} :
       \E call \in {[op |-> "build", call |-> calls + 1,
                     features_list |-> features_list, requested |-> model_type]} :
         IF insufficient_data(features_list, priced)
         THEN \* return None
              /\ ret' = [outcome |-> "None"] @@ call
              /\ scaler' = early_return_scaler(scaler, priced, calls + 1)
              /\ UNCHANGED <<models, trained_model, trained_model_type,
                             feature_names, last_success>>
         ELSE \E T \in TestSets(Len(priced)) :
              \E m \in {prepare_feature_matrix(priced)} :
              \E split \in {train_test_split(m.X, m.y, T)} :
              \E sc2 \in {scaler_fit(split.X_train, calls + 1)} :
                /\ scaler' = sc2
                /\ IF model_type \notin DOMAIN models
                   THEN \* self.models[model_type] raises KeyError
                        /\ ret' = [outcome |-> "KeyError"] @@ call
                        /\ UNCHANGED <<models, trained_model, trained_model_type,
                                       feature_names, last_success>>
                   ELSE \E Xs \in {[i \in 1..Len(split.X_train) |->
                                      scaler_transform(sc2, split.X_train[i])]} :
                        \E fitted \in {model_fit(model_type, Xs, split.y_train, calls + 1)} :
                        \E ms2 \in {[models EXCEPT ![model_type] = fitted]} :
                          /\ models' = ms2
                          /\ IF cross_val_raises(cv_folds(Len(split.X_train)),
                                                 Len(split.X_train))
                             THEN /\ ret' = [outcome |-> "ValueError"] @@ call
                                  /\ UNCHANGED <<trained_model, trained_model_type,
                                                 feature_names, last_success>>
                             ELSE /\ trained_model' = model_type
                                  /\ trained_model_type' = model_type
                                  /\ feature_names' = m.feature_names
                                  /\ last_success' = model_type
                                  /\ ret' = [outcome |-> "results",
                                             model_type |-> model_type,
                                             n_train |-> Len(split.X_train),
                                             n_test |-> Len(split.X_test),
                                             r2_score |->
                                                 r2_score(split.y_test,
                                                          predict_rows(fitted, sc2, split.X_test)),
                                             cv_scores |-> cv_folds(Len(split.X_train)),
                                             feature_importance |->
                                                 get_feature_importance(fitted, m.feature_names),
                                             has_coefficients |-> has_coef(fitted),
                                             predictions |->
                                                 predictions_of(model_type, ms2, sc2, priced)]
                                            @@ call

Build == BuildOver(Batches)

\* predict_price(features), the whole call, for a record of the given set
PredictOver(queries) ==
    /\ \E features \in queries :
         ret' = [op |-> "predict_price", features |-> features,
                 value |-> predict_price(trained_model, models, scaler, features)]
    /\ UNCHANGED <<scaler, models, trained_model, trained_model_type, feature_names,
                   calls, last_success, parse_vars, req_vars, conc_vars>>

PredictPrice == PredictOver(Queries)

CalculateSqftImpact ==
    /\ ret' = [op |-> "calculate_sqft_impact",
               value |-> calculate_sqft_impact(trained_model, models, scaler, feature_names)]
    /\ UNCHANGED <<scaler, models, trained_model, trained_model_type, feature_names,
                   calls, last_success, parse_vars, req_vars, conc_vars>>

Next == Build \/ PredictPrice \/ CalculateSqftImpact

Spec == Init /\ [][Next]_vars

\* ------------------------------------------- training on less regular batches
\* prices that rise ever more steeply with total_sqft
Steep ==
    <<PropertyFeatures("p1", 1000, Some(1000)), PropertyFeatures("p2", 1200, Some(2000)),
      PropertyFeatures("p3", 1400, Some(4000)), PropertyFeatures("p4", 1600, Some(300000)),
      PropertyFeatures("p5", 1800, Some(900000))>>

\* one price for every record
FlatPrice ==
    [i \in 1..5 |-> PropertyFeatures(Mono5[i].property_id, Mono5[i].total_sqft, Some(350000))]

\* six priced records: the held-out split has two samples
Mono6 == Append(Mono5, PropertyFeatures("p6", 2000, Some(500000)))

EdgeBatches == {Steep, FlatPrice, Mono6}

BuildEdge == BuildOver(EdgeBatches)

NextEdge == BuildEdge \/ PredictPrice \/ CalculateSqftImpact

SpecEdge == Init /\ [][NextEdge]_vars

\* -------------------------------------------------------- compare_properties
\* variant: the two words change places
more_or_fewer_swapped(diff) == IF diff > 0 THEN "fewer" ELSE "more"

\* 'more' if diff > 0 else 'fewer' (lines 682, 688, 694)
more_or_fewer(diff) == IF diff > 0 THEN "more" ELSE "fewer"

\* lines 666-703: the parts of the summary sentence, one per non-zero
\* difference, and the price clause; or the fixed sentence when there is none.
\* A part is the number it prints (0 when it prints none), its direction and
\* its noun.
generate_comparison_summary(bedroom_diff, bathroom_diff, sqft_diff, price_diff) ==
    LET bed == IF bedroom_diff = 0 THEN <<>>
               ELSE <<[n |-> 0, direction |-> more_or_fewer(bedroom_diff),
                       noun |-> IF Abs(bedroom_diff) > 1 THEN "bedrooms" ELSE "bedroom"]>>
        bath == IF bathroom_diff = 0 THEN <<>>
                ELSE <<[n |-> 0, direction |-> more_or_fewer(bathroom_diff),
                        noun |-> IF Abs(bathroom_diff) > 1 THEN "bathrooms" ELSE "bathroom"]>>
        sqft == IF sqft_diff = 0 THEN <<>>
                ELSE <<[n |-> Abs(sqft_diff), direction |-> more_or_fewer(sqft_diff),
                        noun |-> "sqft"]>>
        summary_parts == bed \o bath \o sqft
    IN  IF summary_parts = <<>>
        THEN [sentence |-> "Properties are similar in size and features",
              parts |-> <<>>, amount |-> 0, value |-> ""]
        ELSE [sentence |-> "Property A has",
              parts |-> summary_parts, amount |-> Abs(price_diff),
              value |-> IF price_diff > 0 THEN "higher" ELSE "lower"]

\* the four recommendations of lines 708-716
SimilarlyValued == "Properties are similarly valued. Consider other factors like location and condition."
FavoursA == "Property A offers better value per square foot. Recommended if budget allows."
FavoursB == "Property B offers better value per square foot. More cost-effective option."
SimilarPerSqft == "Both properties offer similar value per square foot. Decision should be based on specific needs."

\* variant: the three comparisons admit equality
generate_recommendation_inclusive(price_diff, price_per_sqft_diff) ==
    IF Abs(price_diff) <= 10000 THEN SimilarlyValued
    ELSE IF price_per_sqft_diff >= 20 * FP THEN FavoursA
    ELSE IF price_per_sqft_diff <= -20 * FP THEN FavoursB
    ELSE SimilarPerSqft

\* lines 705-716; price_per_sqft_diff is in fixed point
generate_recommendation(price_diff, price_per_sqft_diff) ==
    IF Abs(price_diff) < 10000 THEN SimilarlyValued
    ELSE IF price_per_sqft_diff > 20 * FP THEN FavoursA
    ELSE IF price_per_sqft_diff < -20 * FP THEN FavoursB
    ELSE SimilarPerSqft

\* variant: the prediction is used as it comes, None included
price_as_predicted(predicted) == predicted

\* "self.predict_price(p) or 0.0": None and 0 both give 0
price_or_zero(predicted) ==
    IF IsNone(predicted) \/ Val(predicted) = 0 THEN Some(0) ELSE predicted

\* variant: property B's price per square foot is not subtracted
price_per_sqft_diff_of_a(price_a, sqft_a, price_b, sqft_b) ==
    IF sqft_a > 0 THEN (price_a * FP) \div sqft_a ELSE 0

\* lines 624-626, in fixed point: each price over its total_sqft, 0 when the
\* total_sqft is not positive
price_per_sqft_diff(price_a, sqft_a, price_b, sqft_b) ==
    (IF sqft_a > 0 THEN (price_a * FP) \div sqft_a ELSE 0)
      - (IF sqft_b > 0 THEN (price_b * FP) \div sqft_b ELSE 0)

\* variant: only the garage is counted
amenity_diff_garage_only(property_a, property_b) ==
    (property_a.has_garage - property_b.has_garage) * 20000

\* lines 637-641
amenity_diff(property_a, property_b) ==
    (property_a.has_garage - property_b.has_garage) * 20000
      + (property_a.has_fireplace - property_b.has_fireplace) * 5000
      + (property_a.has_balcony - property_b.has_balcony) * 3000

\* lines 597-664, against given instance state.  Arithmetic on a None price
\* would raise TypeError.
comparison_result(tm, ms, sc, names, property_a, property_b) ==
    LET bedroom_diff == property_a.bedrooms - property_b.bedrooms
        bathroom_diff == property_a.bathrooms - property_b.bathrooms
        sqft_diff == property_a.total_sqft - property_b.total_sqft
        price_a == price_or_zero(predict_price(tm, ms, sc, property_a))
        price_b == price_or_zero(predict_price(tm, ms, sc, property_b))
        impact == calculate_sqft_impact(tm, ms, sc, names)
    IN  IF IsNone(price_a) \/ IsNone(price_b)
        THEN [outcome |-> "TypeError"]
        ELSE LET price_diff == Val(price_a) - Val(price_b)
                 per_sqft == price_per_sqft_diff(Val(price_a), property_a.total_sqft,
                                                 Val(price_b), property_b.total_sqft)
             IN  [outcome |-> "ComparisonResult",
                  property_a_id |-> property_a.property_id,
                  property_b_id |-> property_b.property_id,
                  bedroom_diff |-> bedroom_diff,
                  bathroom_diff |-> bathroom_diff,
                  sqft_diff |-> sqft_diff,
                  predicted_price_diff |-> price_diff,
                  price_per_sqft_diff |-> per_sqft,
                  sqft_impact |-> sqft_diff * (IF IsNone(impact) THEN 0 ELSE Val(impact)),
                  bedroom_impact |-> bedroom_diff * 15000,
                  bathroom_impact |-> bathroom_diff * 10000,
                  amenity_impact |-> amenity_diff(property_a, property_b),
                  comparison_summary |->
                      generate_comparison_summary(bedroom_diff, bathroom_diff, sqft_diff, price_diff),
                  recommendation |-> generate_recommendation(price_diff, per_sqft)]

\* variant: the bedroom impact is set to what makes the four impacts add up
\* to the predicted price difference
compare_properties_reconciled(tm, ms, sc, names, property_a, property_b) ==
    LET r == comparison_result(tm, ms, sc, names, property_a, property_b)
    IN  [r EXCEPT !.bedroom_impact =
            r.predicted_price_diff - r.sqft_impact - r.bathroom_impact - r.amenity_impact]

compare_properties(tm, ms, sc, names, property_a, property_b) ==
    comparison_result(tm, ms, sc, names, property_a, property_b)

\* records compared: they differ in rooms, size and amenities; one has
\* total_sqft 0
CompareRecords ==
    {PropertyFeatures("a", 1500, None),
     [PropertyFeatures("b", 2000, None) EXCEPT !.bedrooms = 3, !.bathrooms = 2,
                                                !.has_garage = 1],
     [PropertyFeatures("c", 0, None) EXCEPT !.has_fireplace = 1, !.has_balcony = 1],
     [PropertyFeatures("d", 1000, None) EXCEPT !.bedrooms = 4, !.bathrooms = 3]}

CompareBatches == {Mono5, Steep}

\* training, as long as no comparison has been made
BuildThenCompare == ~comparison.done /\ BuildOver(CompareBatches)

\* one compare_properties call; the prediction of each property is kept next
\* to the result
CompareProperties ==
    /\ ~comparison.done
    /\ \E property_a, property_b \in CompareRecords :
         comparison' =
            [done |-> TRUE, property_a |-> property_a, property_b |-> property_b,
             predicted_a |-> predict_price(trained_model, models, scaler, property_a),
             predicted_b |-> predict_price(trained_model, models, scaler, property_b),
             result |-> compare_properties(trained_model, models, scaler, feature_names,
                                           property_a, property_b)]
    /\ UNCHANGED <<inst_vars, parse_vars, conc_vars, db_rows, extracted, response, requests>>

NextCompare == BuildThenCompare \/ CompareProperties

SpecCompare == Init /\ [][NextCompare]_vars

\* ---------------------------------------------------- _generate_recommendation
\* price differences and per-sqft differences on and around the thresholds
PriceDiffs == {-50000, -10001, -10000, -9999, -1, 0, 1, 9999, 10000, 10001, 50000}

PerSqftDiffs ==
    {-30 * FP, -20 * FP - 1, -20 * FP, -20 * FP + 1, 0,
     20 * FP - 1, 20 * FP, 20 * FP + 1, 30 * FP}

InitRecommend ==
    /\ InitInstance
    /\ ParseIdle
    /\ ConcIdle
    /\ db_rows = <<>>
    /\ extracted = [done |-> FALSE]
    /\ response = [status |-> 0]
    /\ requests = <<>>
    /\ \E price_diff \in PriceDiffs, per_sqft \in PerSqftDiffs :
         comparison = [done |-> FALSE, price_diff |-> price_diff,
                       price_per_sqft_diff |-> per_sqft]

GenerateRecommendation ==
    /\ ~comparison.done
    /\ comparison' =
          [done |-> TRUE, price_diff |-> comparison.price_diff,
           price_per_sqft_diff |-> comparison.price_per_sqft_diff,
           recommendation |-> generate_recommendation(comparison.price_diff,
                                                      comparison.price_per_sqft_diff)]
    /\ UNCHANGED <<inst_vars, parse_vars, conc_vars, db_rows, extracted, response, requests>>

NextRecommend == GenerateRecommendation

SpecRecommend == InitRecommend /\ [][NextRecommend]_vars

\* ------------------------------------------------ training on monotonic batches
\* prices rising with total_sqft, steeply, over larger homes; three of the
\* five records have a price
Large5 ==
    <<PropertyFeatures("p1", 3000, Some(100000)), PropertyFeatures("p2", 3200, None),
      PropertyFeatures("p3", 3400, Some(500000)), PropertyFeatures("p4", 3600, None),
      PropertyFeatures("p5", 3800, Some(900000))>>

\* batches in which sale_price increases with total_sqft, all else equal
MonotonicBatches == {Mono5, Large5}

BuildMonotonic == BuildOver(MonotonicBatches)

NextMono == BuildMonotonic \/ PredictPrice

SpecMono == Init /\ [][NextMono]_vars

\* ------------------------------------------------------- columns of the matrix
\* records whose twelve features can be told apart by their values: one per
\* amenity flag
Probe(id, flag) ==
    [PropertyFeatures(id, 1500, None) EXCEPT
        !.bedrooms = 3, !.bathrooms = 2, !.room_count = 6, !.avg_room_sqft = 210,
        !.largest_room_sqft = 320, !.num_doors = 8, !.num_windows = 12,
        !.has_garage = IF flag = "has_garage" THEN 1 ELSE 0,
        !.has_fireplace = IF flag = "has_fireplace" THEN 1 ELSE 0,
        !.has_balcony = IF flag = "has_balcony" THEN 1 ELSE 0,
        !.has_closets = IF flag = "has_closets" THEN 1 ELSE 0]

Probes ==
    {Probe("g", "has_garage"), Probe("f", "has_fireplace"),
     Probe("b", "has_balcony"), Probe("c", "has_closets")}

\* the probes with a price, as a training batch
ProbeBatch ==
    <<[Probe("g", "has_garage") EXCEPT !.total_sqft = 1000, !.sale_price = Some(300000)],
      [Probe("f", "has_fireplace") EXCEPT !.total_sqft = 1200, !.sale_price = Some(340000)],
      [Probe("b", "has_balcony") EXCEPT !.total_sqft = 1400, !.sale_price = Some(380000)],
      [Probe("c", "has_closets") EXCEPT !.total_sqft = 1600, !.sale_price = Some(420000)],
      [Probe("n", "none") EXCEPT !.total_sqft = 1800, !.sale_price = Some(460000)]>>

BuildColumns == BuildOver({Mono5})

PredictProbe == PredictOver(Probes)

NextColumns == BuildColumns \/ PredictProbe \/ CalculateSqftImpact

SpecColumns == Init /\ [][NextColumns]_vars

\* ------------------------------------------------- the summary of a comparison
\* _generate_comparison_summary over differences of either sign and of size 1
\* and more
BedroomDiffs == {-2, -1, 0, 1, 2}
BathroomDiffs == {-2, -1, 0, 1}
SqftDiffs == {-500, 0, 1, 1500}
SummaryPriceDiffs == {-25000, 0, 12000}

InitSummary ==
    /\ InitInstance
    /\ ParseIdle
    /\ ConcIdle
    /\ db_rows = <<>>
    /\ extracted = [done |-> FALSE]
    /\ response = [status |-> 0]
    /\ requests = <<>>
    /\ \E bedroom_diff \in BedroomDiffs, bathroom_diff \in BathroomDiffs,
          sqft_diff \in SqftDiffs, price_diff \in SummaryPriceDiffs :
         comparison = [done |-> FALSE, bedroom_diff |-> bedroom_diff,
                       bathroom_diff |-> bathroom_diff, sqft_diff |-> sqft_diff,
                       price_diff |-> price_diff]

GenerateComparisonSummary ==
    /\ ~comparison.done
    /\ comparison' =
          [comparison EXCEPT !.done = TRUE] @@
          [comparison_summary |->
              generate_comparison_summary(comparison.bedroom_diff, comparison.bathroom_diff,
                                          comparison.sqft_diff, comparison.price_diff)]
    /\ UNCHANGED <<inst_vars, parse_vars, conc_vars, db_rows, extracted, response, requests>>

NextSummary == GenerateComparisonSummary

SpecSummary == InitSummary /\ [][NextSummary]_vars

\* =========================================== two callers on one instance
\* One caller runs build_room_dimension_model and another runs predict_price
\* on the same PropertyRegressionModel, with no lock: the statements of the
\* two calls interleave.  Each step below is one statement that reads or
\* writes the instance.
ConcBatches == {Four, Boundary}

\* lines 364-385: the early returns, the feature matrix and the split
T_Begin ==
    /\ t_pc = "idle"
    /\ calls < MaxCalls
    /\ calls' = calls + 1
    /\ \E features_list \in ConcBatches, model_type \in ModelTypes :
       \E priced \in {data_with_prices(features_list)} :
       \E call \in {[op |-> "build", call |-> calls + 1,
                     features_list |-> features_list, requested |-> model_type]} :
         IF insufficient_data(features_list, priced)
         THEN /\ ret' = [outcome |-> "None"] @@ call
              /\ UNCHANGED <<t_pc, t_local>>
         ELSE \E T \in TestSets(Len(priced)) :
              \E m \in {prepare_feature_matrix(priced)} :
                /\ t_pc' = "scale"
                /\ t_local' = [call |-> call, priced |-> priced,
                               feature_names |-> m.feature_names,
                               split |-> train_test_split(m.X, m.y, T)]
                /\ UNCHANGED ret
    /\ UNCHANGED <<scaler, models, trained_model, trained_model_type, feature_names,
                   last_success, parse_vars, req_vars, p_pc, p_local, p_ret>>

\* line 388: X_train_scaled = self.scaler.fit_transform(X_train)
T_Scale ==
    /\ t_pc = "scale"
    /\ \E sc2 \in {scaler_fit(t_local.split.X_train, t_local.call.call)} :
         /\ scaler' = sc2
         /\ t_local' = [X_train_scaled |->
                           [i \in 1..Len(t_local.split.X_train) |->
                               scaler_transform(sc2, t_local.split.X_train[i])]]
                       @@ t_local
    /\ t_pc' = "fit"
    /\ UNCHANGED <<models, trained_model, trained_model_type, feature_names, calls,
                   last_success, ret, parse_vars, req_vars, p_pc, p_local, p_ret>>

\* lines 392-393: model = self.models[model_type]; model.fit(...)
T_Fit ==
    /\ t_pc = "fit"
    /\ models' = [models EXCEPT ![t_local.call.requested] =
                     model_fit(t_local.call.requested, t_local.X_train_scaled,
                               t_local.split.y_train, t_local.call.call)]
    /\ t_pc' = "store"
    /\ UNCHANGED <<scaler, trained_model, trained_model_type, feature_names, calls,
                   last_success, ret, parse_vars, req_vars, t_local, p_pc, p_local, p_ret>>

\* lines 417-445: store the trained model, predict the training records, return
T_Store ==
    /\ t_pc = "store"
    /\ trained_model' = t_local.call.requested
    /\ trained_model_type' = t_local.call.requested
    /\ feature_names' = t_local.feature_names
    /\ last_success' = t_local.call.requested
    /\ ret' = [outcome |-> "results", model_type |-> t_local.call.requested,
               n_train |-> Len(t_local.split.X_train),
               n_test |-> Len(t_local.split.X_test),
               cv_scores |-> cv_folds(Len(t_local.split.X_train)),
               feature_importance |->
                   get_feature_importance(models[t_local.call.requested],
                                          t_local.feature_names),
               has_coefficients |-> has_coef(models[t_local.call.requested]),
               predictions |-> predictions_of(t_local.call.requested, models, scaler,
                                              t_local.priced)]
              @@ t_local.call
    /\ t_pc' = "idle"
    /\ t_local' = None
    /\ UNCHANGED <<scaler, models, calls, parse_vars, req_vars, p_pc, p_local, p_ret>>

\* lines 526-545: the trained-model test and the feature vector
P_Begin ==
    /\ p_pc = "idle"
    /\ \E features \in Queries :
         IF trained_model = NoneRef
         THEN /\ p_ret' = [op |-> "predict_price", features |-> features, value |-> None]
              /\ UNCHANGED <<p_pc, p_local>>
         ELSE /\ p_pc' = "transform"
              /\ p_local' = [features |-> features,
                             feature_vector |-> feature_vector(features)]
              /\ UNCHANGED p_ret
    /\ UNCHANGED <<inst_vars, parse_vars, req_vars, t_pc, t_local>>

\* line 548: feature_vector_scaled = self.scaler.transform(feature_vector)
P_Transform ==
    /\ p_pc = "transform"
    /\ p_local' = [feature_vector_scaled |-> scaler_transform(scaler, p_local.feature_vector),
                   scaler_call |-> scaler.fittedBy] @@ p_local
    /\ p_pc' = "predict"
    /\ UNCHANGED <<inst_vars, parse_vars, req_vars, t_pc, t_local, p_ret>>

\* lines 551-553: self.trained_model.predict(...)[0], clamped
P_Predict ==
    /\ p_pc = "predict"
    /\ p_ret' = [op |-> "predict_price", features |-> p_local.features,
                 value |-> Some(Max0(model_predict(models[trained_model],
                                                   p_local.feature_vector_scaled))),
                 scaler_call |-> p_local.scaler_call,
                 model_call |-> models[trained_model].fittedBy]
    /\ p_pc' = "idle"
    /\ p_local' = None
    /\ UNCHANGED <<inst_vars, parse_vars, req_vars, t_pc, t_local>>

NextConc == T_Begin \/ T_Scale \/ T_Fit \/ T_Store \/ P_Begin \/ P_Transform \/ P_Predict

SpecConc == Init /\ [][NextConc]_vars

\* ======================================================== _parse_property_row
\* JSON values of a row: null (also an absent key), a number n, a string s (a
\* sequence of characters), a dict (a record tagged "dict")
Null == [t |-> "null", n |-> 0, s |-> <<>>]
Num(n) == [t |-> "num", n |-> n, s |-> <<>>]
Str(s) == [t |-> "str", n |-> 0, s |-> s]
IsDict(x) == x.t = "dict"

\* Python truthiness of a value
Truthy(x) ==
    CASE x.t = "null" -> FALSE
      [] x.t = "num" -> x.n # 0
      [] x.t = "str" -> x.s # <<>>
      [] OTHER -> TRUE

Digits == <<"0", "1", "2", "3", "4", "5", "6", "7", "8", "9">>
IsDigit(c) == Contains(Digits, c)
DigitVal(c) == IndexOf(Digits, c) - 1

\* int(s) of a string of digits
RECURSIVE DigitsToInt(_)
DigitsToInt(s) ==
    IF s = <<>> THEN 0 ELSE 10 * DigitsToInt(SubSeq(s, 1, Len(s) - 1)) + DigitVal(s[Len(s)])

\* _to_int: None -> 0, a number -> int(v), a string -> its digits, others -> 0
to_int(v) ==
    CASE v.t = "null" -> 0
      [] v.t = "num" -> v.n
      [] v.t = "str" ->
            LET digits == SelectSeq(v.s, IsDigit)
            IN  IF digits # <<>> THEN DigitsToInt(digits) ELSE 0
      [] OTHER -> 0

\* lines 233-250: the measurement field, then the three extracted_data keys
resolve_total_sqft(r) ==
    LET ed == r.extracted_data
        first == r.total_square_feet
        a == to_int(ed.total_square_feet)
        b == to_int(ed.square_footage)
        c == to_int(ed.square_feet)
    IN  IF Truthy(first) THEN first
        ELSE IF a # 0 THEN Num(a)
        ELSE IF b # 0 THEN Num(b)
        ELSE Num(c)

\* variant: only a negative value is rejected, so an absent or zero square
\* footage passes as 0
total_sqft_rejected_negative_only(total_sqft) ==
    total_sqft.t = "str" \/ total_sqft.n < 0

\* line 251: "not total_sqft or total_sqft <= 0" returns None; comparing a
\* string with 0 raises TypeError, which the handler turns into None as well
total_sqft_rejected(total_sqft) ==
    \/ ~Truthy(total_sqft)
    \/ total_sqft.t = "str"
    \/ total_sqft.n <= 0

\* re.sub(r'[^0-9\.-]', '', val)
IsPriceChar(c) == IsDigit(c) \/ c = "." \/ c = "-"

\* float(s) for s of digits, "." and "-": an optional leading "-", then digits
\* with at most one "." and at least one digit; anything else is ValueError.
\* The strings of this model carry only zero fractional digits, so the value
\* is that of the integer part.
parse_float(s) ==
    LET neg   == s # <<>> /\ s[1] = "-"
        body  == IF neg THEN Tail(s) ELSE s
        dots  == {i \in 1..Len(body) : body[i] = "."}
        ok    == /\ \A i \in 1..Len(body) : body[i] # "-"
                 /\ Cardinality(dots) <= 1
                 /\ \E i \in 1..Len(body) : IsDigit(body[i])
        whole == IF dots = {} THEN body
                 ELSE SubSeq(body, 1, (CHOOSE i \in dots : TRUE) - 1)
        mag   == DigitsToInt(whole)
    IN  IF ok THEN [ok |-> TRUE, v |-> IF neg THEN -mag ELSE mag]
        ELSE [ok |-> FALSE, v |-> 0]

\* lines 286-290: sale_price, else last_sale_price, else price (first not None)
comparable_value(c) ==
    IF c.sale_price # Null THEN c.sale_price
    ELSE IF c.last_sale_price # Null THEN c.last_sale_price
    ELSE c.price

\* lines 292-301: the price a comparable contributes, if any
comparable_price(c) ==
    IF ~IsDict(c) THEN None
    ELSE LET val == comparable_value(c)
             s   == SelectSeq(val.s, IsPriceChar)
         IN  IF val.t = "str"
             THEN IF s = <<>> THEN None
                  ELSE IF ~parse_float(s).ok THEN None
                  ELSE IF parse_float(s).v > 0 THEN Some(parse_float(s).v) ELSE None
             ELSE IF val.t = "num" /\ val.n > 0 THEN Some(val.n) ELSE None

RECURSIVE comp_prices(_)
comp_prices(comparables) ==
    IF comparables = <<>> THEN <<>>
    ELSE comparable_price(Head(comparables)) \o comp_prices(Tail(comparables))

\* insertion of x into an ascending sequence
RECURSIVE Insert(_, _)
Insert(x, s) ==
    IF s = <<>> THEN <<x>>
    ELSE IF x <= Head(s) THEN <<x>> \o s ELSE <<Head(s)>> \o Insert(x, Tail(s))

RECURSIVE Sorted(_)
Sorted(s) == IF s = <<>> THEN <<>> ELSE Insert(Head(s), Sorted(Tail(s)))

\* np.median: the middle of the sorted values, or the mean of the two middle
Median(s) ==
    LET o == Sorted(s)
        n == Len(o)
    IN  IF n % 2 = 1 THEN o[(n + 1) \div 2]
        ELSE (o[n \div 2] + o[n \div 2 + 1]) \div 2

\* lines 305-316: the estimated value, when it is a positive number
estimated_value_price(ev) ==
    LET s == SelectSeq(ev.s, IsPriceChar)
    IN  IF ev.t = "str"
        THEN IF s = <<>> THEN None
             ELSE IF ~parse_float(s).ok THEN None
             ELSE IF parse_float(s).v > 0 THEN Some(parse_float(s).v) ELSE None
        ELSE IF ev.t = "num" /\ ev.n > 0 THEN Some(ev.n) ELSE None

\* variant: the estimated value is preferred to the comparables
resolve_sale_price_estimate_first(r) ==
    LET mi == r.extracted_data.market_insights
        comparables == IF r.comparables # <<>> THEN r.comparables
                       ELSE mi.comparable_properties
        prices == comp_prices(comparables)
        est == estimated_value_price(mi.price_estimate.estimated_value)
    IN  IF est # None THEN est
        ELSE IF prices # <<>> THEN Some(Median(prices))
        ELSE None

\* lines 273-316
resolve_sale_price(r) ==
    LET mi == r.extracted_data.market_insights
        comparables == IF r.comparables # <<>> THEN r.comparables
                       ELSE mi.comparable_properties
        prices == comp_prices(comparables)
    IN  IF prices # <<>> THEN Some(Median(prices))
        ELSE estimated_value_price(mi.price_estimate.estimated_value)

\* lines 254-259: the rooms of the measurement list with a truthy sqft
room_sqfts(rooms) ==
    LET kept == SelectSeq(rooms, LAMBDA r : IsDict(r) /\ Truthy(r.sqft))
    IN  [i \in 1..Len(kept) |-> kept[i].sqft.n]

MaxOf(s) == CHOOSE x \in {s[i] : i \in 1..Len(s)} : \A i \in 1..Len(s) : s[i] <= x
MinOf(s) == CHOOSE x \in {s[i] : i \in 1..Len(s)} : \A i \in 1..Len(s) : x <= s[i]

UpperLetters == <<"A", "B", "C", "D", "E", "F", "G", "H", "I", "J", "K", "L", "M", "N", "O", "P", "Q", "R", "S", "T", "U", "V", "W", "X", "Y", "Z">>
LowerLetters == <<"a", "b", "c", "d", "e", "f", "g", "h", "i", "j", "k", "l", "m", "n", "o", "p", "q", "r", "s", "t", "u", "v", "w", "x", "y", "z">>

\* str.lower()
Lower(s) ==
    [i \in 1..Len(s) |->
        IF Contains(UpperLetters, s[i]) THEN LowerLetters[IndexOf(UpperLetters, s[i])]
        ELSE s[i]]

\* pat in s
IsSubstring(pat, s) ==
    \E i \in 0..(Len(s) - Len(pat)) : SubSeq(s, i + 1, i + Len(pat)) = pat

\* str(list of strings): "['a', 'b']"
RECURSIVE ReprItems(_)
ReprItems(items) ==
    IF items = <<>> THEN <<>>
    ELSE <<"'">> \o Head(items) \o <<"'">>
           \o (IF Len(items) > 1 THEN <<",", " ">> ELSE <<>>) \o ReprItems(Tail(items))

ReprList(items) == <<"[">> \o ReprItems(items) \o <<"]">>

GARAGE == <<"g", "a", "r", "a", "g", "e">>
FIREPLACE == <<"f", "i", "r", "e", "p", "l", "a", "c", "e">>
BALCONY == <<"b", "a", "l", "c", "o", "n", "y">>

\* lines 268-271
has_garage(room_list) ==
    \E i \in 1..Len(room_list) :
        IsDict(room_list[i]) /\ IsSubstring(GARAGE, Lower(room_list[i].type))

has_fireplace(room_list) ==
    \E i \in 1..Len(room_list) :
        IsDict(room_list[i]) /\ IsSubstring(FIREPLACE, ReprList(room_list[i].features))

has_balcony(room_list) ==
    \E i \in 1..Len(room_list) :
        IsDict(room_list[i]) /\ IsSubstring(BALCONY, ReprList(room_list[i].features))

Bit(b) == IF b THEN 1 ELSE 0

\* the whole function: None for a rejected row, Some(PropertyFeatures) otherwise
parse_property_row(r) ==
    LET ed == r.extracted_data
        total_sqft == resolve_total_sqft(r)
        sqfts == room_sqfts(r.rooms)
        room_count == Len(sqfts)
        totals == r.detected_features.totals
    IN  IF total_sqft_rejected(total_sqft) THEN None
        ELSE Some(
          [property_id |-> r.property_id,
           bedrooms |-> ed.bedrooms,
           bathrooms |-> ed.bathrooms,
           total_sqft |-> total_sqft.n,
           room_count |-> room_count,
           avg_room_sqft |-> IF room_count > 0 THEN SumSeq(sqfts) \div room_count ELSE 0,
           largest_room_sqft |-> IF sqfts # <<>> THEN MaxOf(sqfts) ELSE 0,
           smallest_room_sqft |-> IF sqfts # <<>> THEN MinOf(sqfts) ELSE 0,
           has_garage |-> Bit(has_garage(ed.rooms)),
           has_fireplace |-> Bit(has_fireplace(ed.rooms)),
           has_balcony |-> Bit(has_balcony(ed.rooms)),
           has_closets |-> Bit(totals.closets > 0),
           num_doors |-> totals.doors,
           num_windows |-> totals.windows,
           sale_price |-> resolve_sale_price(r),
           quality_score |-> r.quality_score,
           confidence |-> r.total_square_feet_confidence])

\* ------------------------------------------------------------- rows given
MaxComps == 2

Comparable(sale_price, last_sale_price, price) ==
    [t |-> "dict", sale_price |-> sale_price, last_sale_price |-> last_sale_price,
     price |-> price]

MeasuredRoom(sqft) == [t |-> "dict", sqft |-> sqft]

ExtractedRoom(type, features) == [t |-> "dict", type |-> type, features |-> features]

MkRow(total_square_feet, ed_total, ed_footage, ed_feet, comparables, mi_comparables, ev) ==
    [property_id |-> "p1",
     total_square_feet |-> total_square_feet,
     quality_score |-> 85,
     total_square_feet_confidence |-> 90,
     rooms |-> <<MeasuredRoom(Num(200)), MeasuredRoom(Num(0)), MeasuredRoom(Num(300))>>,
     detected_features |-> [totals |-> [doors |-> 8, windows |-> 12, closets |-> 4]],
     comparables |-> comparables,
     extracted_data |->
        [bedrooms |-> 3, bathrooms |-> 2,
         total_square_feet |-> ed_total, square_footage |-> ed_footage,
         square_feet |-> ed_feet,
         rooms |-> <<ExtractedRoom(<<"G", "a", "r", "a", "g", "e">>, <<<<"f", "i", "r", "e", "p", "l", "a", "c", "e">>>>)>>,
         market_insights |->
            [comparable_properties |-> mi_comparables,
             price_estimate |-> [estimated_value |-> ev]]]]

RowTotals == {Null, Num(0), Num(1500), Num(-5), Str(<<"1", ",", "5", "0", "0">>)}
EdTotals == {Null, Str(<<"1", ",", "2", "0", "0", " ", "s", "q", " ", "f", "t">>)}
EdFootages == {Null, Num(0), Str(<<"n", "/", "a">>)}
EdFeets == {Null, Num(900), Num(-7)}

ComparablePool ==
    {Comparable(Num(300000), Null, Null),
     Comparable(Null, Str(<<"$", "3", "4", "0", ",", "0", "0", "0">>), Null),
     Comparable(Num(0), Null, Num(999998)),
     Comparable(Str(<<"-", "5", "0", "0">>), Null, Null),
     Str(<<"n", "/", "a">>)}

ComparableLists ==
    UNION {[1..n -> ComparablePool] : n \in 0..MaxComps}

MiComparableLists == {<<>>, <<Comparable(Null, Null, Num(380000))>>}

EstimatedValues == {Null, Num(250000), Num(0), Str(<<"$", "2", "7", "5", ",", "0", "0", "0", ".", "0", "0">>), Str(<<"1", ".", "2", ".", "3">>)}

\* the measurement rooms a row may list: a room with an area, with area 0,
\* without the sqft key, with a negative area, and an entry that is no dict
MaxRooms == 2

MeasuredRoomPool ==
    {MeasuredRoom(Num(200)), MeasuredRoom(Num(300)), MeasuredRoom(Num(0)),
     MeasuredRoom(Null), MeasuredRoom(Num(-50)), Str(<<"n", "/", "a">>)}

MeasuredRoomLists == UNION {[1..n -> MeasuredRoomPool] : n \in 0..MaxRooms}

\* the rooms extracted_data may list: the token in the type or in the
\* features, in lower case or capitalised, and rooms without a token
ExtractedRoomPool ==
    {ExtractedRoom(<<"b", "e", "d", "r", "o", "o", "m">>, <<>>),
     ExtractedRoom(<<"2", "-", "C", "a", "r", " ", "G", "a", "r", "a", "g", "e">>, <<>>),
     ExtractedRoom(<<"l", "i", "v", "i", "n", "g">>, <<<<"g", "a", "r", "a", "g", "e", " ", "d", "o", "o", "r">>>>),
     ExtractedRoom(<<"l", "i", "v", "i", "n", "g">>, <<<<"b", "a", "y">>, <<"g", "a", "s", " ", "f", "i", "r", "e", "p", "l", "a", "c", "e">>>>),
     ExtractedRoom(<<"d", "e", "n">>, <<<<"F", "i", "r", "e", "p", "l", "a", "c", "e">>>>),
     ExtractedRoom(<<"m", "a", "s", "t", "e", "r">>, <<<<"b", "a", "l", "c", "o", "n", "y">>>>),
     ExtractedRoom(<<"B", "a", "l", "c", "o", "n", "y">>, <<>>),
     Str(<<"n", "/", "a">>)}

ExtractedRoomLists == UNION {[1..n -> ExtractedRoomPool] : n \in 0..MaxRooms}

\* a row with the given measurement rooms and extracted rooms
WithRooms(rooms, room_list) ==
    [MkRow(Num(1500), Null, Null, Null, <<>>, <<>>, Null) EXCEPT
        !.rooms = rooms, !.extracted_data.rooms = room_list]

RoomRows ==
    {WithRooms(rooms, <<>>) : rooms \in MeasuredRoomLists}
    \cup {WithRooms(<<>>, room_list) : room_list \in ExtractedRoomLists}

\* every square-footage case with two price cases, every price case with
\* three square-footage cases, and every case of the two room lists
Rows ==
    RoomRows \cup
    {MkRow(t, a, b, c, comps, <<>>, Null) :
        t \in RowTotals, a \in EdTotals, b \in EdFootages, c \in EdFeets,
        comps \in {<<>>, <<Comparable(Num(300000), Null, Null)>>}}
    \cup
    {MkRow(t, Null, Null, c, comps, mi, ev) :
        t \in {Null, Num(1500)}, c \in {Null, Num(900)},
        comps \in ComparableLists, mi \in MiComparableLists, ev \in EstimatedValues}

InitParse ==
    /\ InitInstance
    /\ ConcIdle
    /\ ReqIdle
    /\ db_row \in Rows
    /\ parsed = [done |-> FALSE]

ParseRow ==
    /\ ~parsed.done
    /\ parsed' = [done |-> TRUE, value |-> parse_property_row(db_row)]
    /\ UNCHANGED <<inst_vars, db_row, conc_vars, req_vars>>

NextParse == ParseRow

SpecParse == InitParse /\ [][NextParse]_vars

\* ------------------------------------------------ extract_property_features
MaxRows == 3

\* what the database client does with the query: there is no client, the call
\* raises, or it returns rows
NoDb == [db |-> "none", data |-> <<>>]
DbRaises == [db |-> "raises", data |-> <<>>]
DbReturns(rows) == [db |-> "ok", data |-> rows]

\* a payload with the columns of the query
IsRow(p) == "property_id" \in DOMAIN p

\* lines 193-199: r.get('execute_sql') or r.get('to_jsonb') or r
unwrap(r) ==
    IF "execute_sql" \in DOMAIN r /\ (IsRow(r.execute_sql) \/ Truthy(r.execute_sql))
    THEN r.execute_sql
    ELSE IF "to_jsonb" \in DOMAIN r /\ (IsRow(r.to_jsonb) \/ Truthy(r.to_jsonb))
    THEN r.to_jsonb
    ELSE r

\* lines 204-208: _parse_property_row of a payload.  A payload that is not a
\* dict raises AttributeError inside the function's try block and a dict
\* without the query's columns has no total_sqft: both come back as None.
parse_payload(p) == IF IsRow(p) THEN parse_property_row(p) ELSE None

\* variant: one row that does not parse empties the whole result
extract_features_list_all_or_nothing(rows) ==
    LET parsedRows == [i \in 1..Len(rows) |-> parse_payload(unwrap(rows[i]))]
    IN  IF \E i \in 1..Len(rows) : IsNone(parsedRows[i]) THEN <<>>
        ELSE [i \in 1..Len(rows) |-> Val(parsedRows[i])]

\* lines 193-208: the features of the rows that parse, in the rows' order
extract_features_list(rows) ==
    LET parsedRows == [i \in 1..Len(rows) |-> parse_payload(unwrap(rows[i]))]
        kept == SelectSeq(parsedRows, LAMBDA f : ~IsNone(f))
    IN  [i \in 1..Len(kept) |-> Val(kept[i])]

\* lines 159-220: raises ValueError without a client; [] when the query
\* raises or fewer than min_properties rows parse
extract_property_features(db, min_properties) ==
    IF db.db = "none" THEN [outcome |-> "ValueError", value |-> <<>>]
    ELSE IF db.db = "raises" THEN [outcome |-> "list", value |-> <<>>]
    ELSE LET features_list == extract_features_list(db.data)
         IN  IF Len(features_list) < min_properties
             THEN [outcome |-> "list", value |-> <<>>]
             ELSE [outcome |-> "list", value |-> features_list]

\* rows: two that parse, three that do not, and the RPC's two wrappings
RowA == MkRow(Num(1500), Null, Null, Null, <<Comparable(Num(300000), Null, Null)>>, <<>>, Null)
RowB == [MkRow(Null, Null, Null, Num(900), <<>>, <<>>, Null) EXCEPT !.property_id = "p2"]
RowNoSqft == [MkRow(Null, Null, Num(0), Null, <<>>, <<>>, Num(250000)) EXCEPT !.property_id = "p3"]
RowStrSqft == [MkRow(Str(<<"1", ",", "5", "0", "0">>), Null, Null, Null, <<>>, <<>>, Null) EXCEPT !.property_id = "p4"]

RowPool ==
    {RowA, RowB, RowNoSqft, RowStrSqft, Str(<<"n", "/", "a">>),
     [execute_sql |-> RowB], [to_jsonb |-> RowA], [execute_sql |-> Null]}

RowBatches == UNION {[1..n -> RowPool] : n \in 0..MaxRows}

MinProperties == {0, 1, 2, 10}

InitExtract ==
    /\ InitInstance
    /\ ParseIdle
    /\ ConcIdle
    /\ db_rows \in {NoDb, DbRaises} \cup {DbReturns(rows) : rows \in RowBatches}
    /\ extracted = [done |-> FALSE]
    /\ comparison = [done |-> FALSE]
    /\ response = [status |-> 0]
    /\ requests = <<>>

ExtractPropertyFeatures ==
    /\ ~extracted.done
    /\ \E min_properties \in MinProperties :
         extracted' = [done |-> TRUE, min_properties |-> min_properties]
                        @@ extract_property_features(db_rows, min_properties)
    /\ UNCHANGED <<inst_vars, parse_vars, conc_vars, db_rows, comparison, response, requests>>

NextExtract == ExtractPropertyFeatures

SpecExtract == InitExtract /\ [][NextExtract]_vars

\* ------------------------------------------------------------ analytics routes
\* the element of a one-element set
The(S) == CHOOSE x \in S : TRUE

\* an instance that build_room_dimension_model leaves without a stored model,
\* and what the call returned or raised
left_untrained(outcome, sc, ms) ==
    [outcome |-> outcome, trained_model |-> NoneRef, scaler |-> sc, models |-> ms,
     feature_names |-> <<>>, num_predictions |-> 0]

\* regression_models.py lines 392-445: from the estimator's fit on
fit_and_store(model_type, m, priced, split, sc2, ms2) ==
    IF cross_val_raises(cv_folds(Len(split.X_train)), Len(split.X_train))
    THEN left_untrained("ValueError", sc2, ms2)
    ELSE [outcome |-> "results", trained_model |-> model_type, scaler |-> sc2,
          models |-> ms2, feature_names |-> m.feature_names,
          num_predictions |-> Cardinality(DOMAIN predictions_of(model_type, ms2, sc2, priced))]

\* regression_models.py lines 387-393: the scaler is fitted, then the
\* estimator of the requested type is looked up and fitted
scale_and_fit(model_type, m, priced, split, sc2) ==
    IF model_type \notin ModelTypes
    THEN left_untrained("KeyError", sc2, [k \in ModelTypes |-> UnfittedModel(k)])
    ELSE The({fit_and_store(model_type, m, priced, split, sc2, ms2) :
                ms2 \in {[[k \in ModelTypes |-> UnfittedModel(k)] EXCEPT ![model_type] =
                            model_fit(model_type,
                                      [i \in 1..Len(split.X_train) |->
                                          scaler_transform(sc2, split.X_train[i])],
                                      split.y_train, 1)]}})

\* regression_models.py lines 379-385: the matrix and its split
split_and_scale(model_type, priced, T, m) ==
    The({The({scale_and_fit(model_type, m, priced, split, sc2) :
                sc2 \in {scaler_fit(split.X_train, 1)}}) :
           split \in {train_test_split(m.X, m.y, T)}})

\* build_room_dimension_model on the new instance a request creates: what it
\* returns or raises, and the instance state it leaves.  Each intermediate
\* value is computed once.
build_room_dimension_model(features_list, model_type, T) ==
    The({IF insufficient_data(features_list, priced)
         THEN left_untrained("None", UnfittedScaler, [k \in ModelTypes |-> UnfittedModel(k)])
         ELSE The({split_and_scale(model_type, priced, T, m) :
                     m \in {prepare_feature_matrix(priced)}}) :
           priced \in {data_with_prices(features_list)}})

\* the held-out index sets the split of a batch can draw (one empty set when
\* the call returns before the split)
SplitsOf(features_list) ==
    IF insufficient_data(features_list, data_with_prices(features_list))
    THEN {{}}
    ELSE TestSets(Len(data_with_prices(features_list)))

\* variant: the thresholds themselves fall in the lower bucket
confidence_bucket_exclusive(confidence) ==
    IF confidence > 90 THEN "high"
    ELSE IF confidence > 70 THEN "medium"
    ELSE "low"

\* analytics.py lines 277-283; confidence is in hundredths
confidence_bucket(confidence) ==
    IF confidence >= 90 THEN "high"
    ELSE IF confidence >= 70 THEN "medium"
    ELSE "low"

\* a row of the query that parses to the given total_sqft and sale_price
RowOf(id, sqft, price) ==
    [MkRow(Num(sqft), Null, Null, Null,
           IF IsNone(price) THEN <<>> ELSE <<Comparable(Num(Val(price)), Null, Null)>>,
           <<>>, Null)
       EXCEPT !.property_id = id]

RowsOf(features_list) ==
    [i \in 1..Len(features_list) |->
        RowOf(features_list[i].property_id, features_list[i].total_sqft,
              features_list[i].sale_price)]

RowIds == <<"r1", "r2", "r3", "r4", "r5", "r6", "r7", "r8", "r9", "r10">>

\* ten usable rows of which two have a price
TenRowsTwoPriced ==
    [i \in 1..10 |->
        RowOf(RowIds[i], 1000 + 100 * i, IF i <= 2 THEN Some(300000 + 20000 * i) ELSE None)]

\* ten usable rows, all with a price
TenRowsPriced ==
    [i \in 1..10 |-> RowOf(RowIds[i], 1000 + 100 * i, Some(300000 + 20000 * i))]

\* what the properties tables hold
Databases ==
    {DbRaises, DbReturns(<<>>), DbReturns(RowsOf(Four)), DbReturns(RowsOf(Mono5)),
     DbReturns(RowsOf(TwoPriced)), DbReturns(TenRowsTwoPriced), DbReturns(TenRowsPriced)}

\* the request body's model_type and min_properties (10 when absent)
BodyModelTypes == RequestedTypes
BodyMinProperties == {3, 5, 10}

\* the record of the property asked about: found with some confidence, or
\* not found
Confidences == {0, 69, 70, 71, 89, 90, 91, 100}

RequestedProperties ==
    {[found |-> FALSE, features |-> PropertyFeatures("q", 1500, None) @@ [confidence |-> 0]]}
    \cup {[found |-> TRUE, features |-> PropertyFeatures("q", sqft, None) @@ [confidence |-> c]] :
            sqft \in {0, 1500}, c \in Confidences}

InitRoutes ==
    /\ InitInstance
    /\ ParseIdle
    /\ ConcIdle
    /\ db_rows \in Databases
    /\ extracted = [done |-> FALSE]
    /\ comparison = [done |-> FALSE]
    /\ response = [status |-> 0]
    /\ requests = <<>>

\* PropertyRegressionModel(db_client=db): the instance a request starts with
new_instance ==
    [outcome |-> "new", trained_model |-> NoneRef, scaler |-> UnfittedScaler,
     models |-> [k \in ModelTypes |-> UnfittedModel(k)], feature_names |-> <<>>,
     num_predictions |-> 0]

\* A request builds its own PropertyRegressionModel and writes nothing to the
\* database, so it leaves nothing for a later request: a behaviour is one
\* request against one database.

\* POST /api/analytics/model/train, analytics.py lines 150-206
TrainRoute ==
    /\ response.status = 0
    /\ \E model_type \in BodyModelTypes, min_properties \in BodyMinProperties :
       \E req \in {[route |-> "train", model_type |-> model_type,
                    min_properties |-> min_properties]} :
         IF model_type \notin {"ridge", "linear", "random_forest"}
         THEN response' = req @@ [status |-> 400, error |-> "Invalid model type",
                                  extracted |-> 0, build |-> "not called"]
         ELSE \E features_list \in {extract_property_features(db_rows, min_properties).value} :
              IF features_list = <<>>
              THEN response' = req @@ [status |-> 400, error |-> "Insufficient data",
                                       extracted |-> 0, build |-> "not called"]
              ELSE \E T \in SplitsOf(features_list) :
                   \E results \in {build_room_dimension_model(features_list, model_type, T)} :
                     IF results.outcome = "None"
                     THEN response' = req @@ [status |-> 500, error |-> "Model training failed",
                                              extracted |-> Len(features_list),
                                              build |-> results.outcome]
                     ELSE IF results.outcome = "results"
                     THEN response' = req @@ [status |-> 200, error |-> "",
                                              extracted |-> Len(features_list),
                                              build |-> results.outcome,
                                              num_properties |-> Len(features_list),
                                              num_predictions |-> results.num_predictions]
                     ELSE \* except Exception
                          response' = req @@ [status |-> 500, error |-> "Model training failed",
                                              extracted |-> Len(features_list),
                                              build |-> results.outcome]
    /\ UNCHANGED <<inst_vars, parse_vars, conc_vars, db_rows, extracted, comparison, requests>>

\* GET /api/analytics/predict/<property_id>, analytics.py lines 246-316
PredictRoute ==
    /\ response.status = 0
    /\ \E property \in RequestedProperties, train_first \in BOOLEAN :
       \E req \in {[route |-> "predict", property |-> property, train_model |-> train_first]} :
         IF ~property.found
         THEN \* get_property_features_from_db raises ValueError
              response' = req @@ [status |-> 404, error |-> "Property not found"]
         ELSE \E all_features \in {IF train_first
                                   THEN extract_property_features(db_rows, 5).value
                                   ELSE <<>>} :
              \E T \in (IF Len(all_features) >= 5 THEN SplitsOf(all_features) ELSE {{}}) :
              \E model \in {IF Len(all_features) >= 5
                            THEN build_room_dimension_model(all_features, "ridge", T)
                            ELSE new_instance} :
              \E predicted_price \in {predict_price(model.trained_model, model.models,
                                                    model.scaler, property.features)} :
                IF model.outcome = "ValueError"
                THEN response' = req @@ [status |-> 404, error |-> "Property not found"]
                ELSE IF model.outcome = "KeyError"
                THEN response' = req @@ [status |-> 500, error |-> "Prediction failed"]
                ELSE IF IsNone(predicted_price)
                THEN response' = req @@ [status |-> 400, error |-> "Prediction failed"]
                ELSE response' =
                       req @@ [status |-> 200, error |-> "",
                               predicted_price |-> Val(predicted_price),
                               price_per_sqft |->
                                   IF property.features.total_sqft > 0
                                   THEN (Val(predicted_price) * FP) \div property.features.total_sqft
                                   ELSE 0,
                               confidence |-> confidence_bucket(property.features.confidence),
                               sqft_impact |->
                                   calculate_sqft_impact(model.trained_model, model.models,
                                                         model.scaler, model.feature_names)]
    /\ UNCHANGED <<inst_vars, parse_vars, conc_vars, db_rows, extracted, comparison, requests>>

NextRoutes == TrainRoute \/ PredictRoute

SpecRoutes == InitRoutes /\ [][NextRoutes]_vars

\* ------------------------------------------------- requests, one after another
\* Several requests against one database.  Each handler creates its own
\* PropertyRegressionModel (analytics.py lines 165-166, 253-254, 380-381,
\* 464-465); a request is received, and later answered from the instance it
\* created.  Of an answer the status, the error, the message and whether the
\* request's instance ended trained are kept.
MaxRequests == 2

NotTrainedMessage == "Model not trained. Set train_model=true to train first"

\* variant: every request trains before it answers
train_first_always(request) == TRUE

\* request.args.get('train_model', 'false').lower() == 'true', and the
\* body's train_model of a comparison
train_first(request) == request.train_model

\* the instance of a request after its optional training (lines 257-260,
\* 384-387, 468-471): min_properties=5, the default model_type
request_model(db, request, T) ==
    IF train_first(request)
    THEN The({IF Len(all_features) >= 5
              THEN build_room_dimension_model(all_features, "ridge", T)
              ELSE new_instance :
                all_features \in {extract_property_features(db, 5).value}})
    ELSE new_instance

\* the held-out sets the training of a request can draw
request_splits(db, request) ==
    IF train_first(request) /\ Len(extract_property_features(db, 5).value) >= 5
    THEN SplitsOf(extract_property_features(db, 5).value)
    ELSE {{}}

Answer(status, error, message, model) ==
    [status |-> status, error |-> error, message |-> message,
     model_trained |-> model.trained_model # NoneRef]

\* POST /model/train with min_properties in the body, lines 150-206
train_answer(db, request, T) ==
    The({IF features_list = <<>>
         THEN Answer(400, "Insufficient data",
                     "Need at least min_properties properties with measurements and prices",
                     new_instance)
         ELSE The({IF results.outcome = "results"
                   THEN Answer(200, "", "", results)
                   ELSE IF results.outcome = "None"
                   THEN Answer(500, "Model training failed",
                               "Could not train model with available data", results)
                   ELSE Answer(500, "Model training failed", "str(e)", results) :
                     results \in {build_room_dimension_model(features_list, "ridge", T)}}) :
           features_list \in {extract_property_features(db, request.min_properties).value}})

\* GET /predict/<property_id>, lines 243-316
predict_answer(db, request, T) ==
    IF ~request.found
    THEN Answer(404, "Property not found", "str(e)", new_instance)
    ELSE The({IF model.outcome = "ValueError"
              THEN Answer(404, "Property not found", "str(e)", model)
              ELSE IF model.outcome = "KeyError"
              THEN Answer(500, "Prediction failed", "str(e)", model)
              ELSE IF IsNone(predict_price(model.trained_model, model.models, model.scaler,
                                           request.features))
              THEN Answer(400, "Prediction failed", NotTrainedMessage, model)
              ELSE Answer(200, "", "", model) :
                model \in {request_model(db, request, T)}})

\* POST /compare, lines 357-419
compare_answer(db, request, T) ==
    The({IF model.outcome = "ValueError"
         THEN Answer(404, "Property not found", "str(e)", model)
         ELSE IF model.outcome = "KeyError"
         THEN Answer(500, "Comparison failed", "str(e)", model)
         ELSE IF compare_properties(model.trained_model, model.models, model.scaler,
                                    model.feature_names, request.features,
                                    request.features_b).outcome = "ComparisonResult"
         THEN Answer(200, "", "", model)
         ELSE Answer(500, "Comparison failed", "str(e)", model) :
           model \in {request_model(db, request, T)}})

\* GET /sqft-impact, lines 459-500
sqft_impact_answer(db, request, T) ==
    The({IF model.outcome \in {"ValueError", "KeyError"}
         THEN Answer(500, "Calculation failed", "str(e)", model)
         ELSE IF model.outcome = "None"
         THEN Answer(500, "Model training failed",
                     "Could not train model with available data", model)
         ELSE IF IsNone(calculate_sqft_impact(model.trained_model, model.models,
                                              model.scaler, model.feature_names))
         THEN Answer(400, "Calculation failed", NotTrainedMessage, model)
         ELSE Answer(200, "", "", model) :
           model \in {request_model(db, request, T)}})

answer_of(db, request, T) ==
    CASE request.route = "train" -> train_answer(db, request, T)
      [] request.route = "predict" -> predict_answer(db, request, T)
      [] request.route = "compare" -> compare_answer(db, request, T)
      [] request.route = "sqft-impact" -> sqft_impact_answer(db, request, T)

\* the requests a client may send
Request(route, train_model, found) ==
    [route |-> route, train_model |-> train_model, found |-> found,
     min_properties |-> 5,
     features |-> PropertyFeatures("q", 1500, None) @@ [confidence |-> 90],
     features_b |-> [PropertyFeatures("b", 2000, None) EXCEPT !.bedrooms = 3]]

RequestKinds ==
    {Request("train", TRUE, TRUE), Request("predict", FALSE, FALSE)}
    \cup {Request(route, train_model, TRUE) :
            route \in {"predict", "compare", "sqft-impact"}, train_model \in BOOLEAN}

\* a train request has been answered with 200
TrainSucceeded ==
    \E j \in 1..Len(requests) :
        /\ requests[j].route = "train"
        /\ requests[j].pc = "answered"
        /\ requests[j].answer.status = 200

ServerDatabases == {DbReturns(RowsOf(Mono5)), DbReturns(RowsOf(Four))}

InitServer ==
    /\ InitInstance
    /\ ParseIdle
    /\ ConcIdle
    /\ db_rows \in ServerDatabases
    /\ extracted = [done |-> FALSE]
    /\ comparison = [done |-> FALSE]
    /\ response = [status |-> 0]
    /\ requests = <<>>

\* a request arrives and its handler creates its instance
ReceiveRequest ==
    /\ Len(requests) < MaxRequests
    /\ \E request \in RequestKinds :
         requests' = Append(requests,
                            request @@ [pc |-> "handling",
                                        instance_trained |-> new_instance.trained_model # NoneRef,
                                        after_training |-> TrainSucceeded,
                                        answer |-> Answer(0, "", "", new_instance)])
    /\ UNCHANGED <<inst_vars, parse_vars, conc_vars, db_rows, extracted, comparison, response>>

\* the handler of a received request runs to its answer
AnswerRequest ==
    /\ \E i \in 1..Len(requests) :
         /\ requests[i].pc = "handling"
         /\ \E T \in request_splits(db_rows, requests[i]) :
              requests' = [requests EXCEPT ![i].pc = "answered",
                                           ![i].answer = answer_of(db_rows, requests[i], T)]
    /\ UNCHANGED <<inst_vars, parse_vars, conc_vars, db_rows, extracted, comparison, response>>

NextServer == ReceiveRequest \/ AnswerRequest

SpecServer == InitServer /\ [][NextServer]_vars

\* ==================================================================== claims
\* number of records of a batch with a known price greater than 0
PricedCount(features_list) ==
    Cardinality({i \in 1..Len(features_list) :
                   /\ features_list[i].sale_price # None
                   /\ features_list[i].sale_price[1] > 0})

\* C1: whenever a trained estimator is stored, the scaler that predict_price
\* applies was fitted by the same training call as that estimator.
C1_ScalerOfSameCall ==
    trained_model # NoneRef => scaler.fittedBy = models[trained_model].fittedBy

\* C3: fitted state is never changed by a later step: once the scaler or an
\* estimator object is fitted, its contents stay as they are.
C3_FittedStateReadOnly ==
    [][/\ scaler.fitted => scaler' = scaler
       /\ \A k \in ModelTypes : models[k].fitted => models'[k] = models[k]]_vars

\* C4: a build over fewer than 5 records, or over fewer than 3 records with a
\* price that is not None and greater than 0, returns None (it does not raise).
C4_InsufficientDataReturnsNone ==
    (/\ ret.op = "build"
     /\ (Len(ret.features_list) < 5 \/ PricedCount(ret.features_list) < 3))
        => ret.outcome = "None"

C4_Witness ==
    /\ ret.op = "build"
    /\ Len(ret.features_list) >= 5
    /\ PricedCount(ret.features_list) = 2
    /\ ret.outcome = "None"

\* C5: for a known model type, a build over at least 5 records of which at
\* least 3 are priced returns results: not None, no exception.
C5_SufficientDataReturnsResults ==
    (/\ ret.op = "build"
     /\ ret.requested \in ModelTypes
     /\ Len(ret.features_list) >= 5
     /\ PricedCount(ret.features_list) >= 3)
        => ret.outcome = "results"

\* the boundary: exactly 5 records, exactly 3 priced, 2 training and 1 held-out
C5_Witness ==
    /\ ret.op = "build"
    /\ Len(ret.features_list) = 5
    /\ PricedCount(ret.features_list) = 3
    /\ ret.outcome = "results"
    /\ ret.n_train = 2
    /\ ret.n_test = 1
    /\ ret.model_type = "random_forest"

\* C6: while no training has succeeded, predict_price and
\* calculate_sqft_impact both return None.
C6_UntrainedReturnsNone ==
    (last_success = NoneRef /\ ret.op \in {"predict_price", "calculate_sqft_impact"})
        => ret.value = None

\* a prediction asked after a training call that raised
C6_Witness ==
    /\ last_success = NoneRef
    /\ scaler.fitted
    /\ ret.op = "predict_price"
    /\ ret.value = None

\* C7: after a successful training, calculate_sqft_impact returns a number
\* exactly when the most recent successful training was linear or ridge.
C7_ImpactIffLinearLast ==
    (ret.op = "calculate_sqft_impact" /\ last_success # NoneRef)
        => (ret.value # None <=> last_success \in {"linear", "ridge"})

\* a forest trained after a linear model: the linear estimator still holds
\* coefficients, and the answer is None
C7_Witness ==
    /\ ret.op = "calculate_sqft_impact"
    /\ last_success = "random_forest"
    /\ models["linear"].fitted
    /\ ret.value = None

\* C8: a prediction that is not None is greater than or equal to 0.
C8_PredictionNonNegative ==
    (ret.op = "predict_price" /\ ret.value # None) => ret.value[1] >= 0

\* a record with total_sqft = 0 and negative door and window counts, for which
\* the trained linear estimator answers a negative price
C8_Witness ==
    /\ ret.op = "predict_price"
    /\ ret.features.total_sqft = 0
    /\ ret.features.num_doors < 0
    /\ trained_model = "linear"
    /\ model_predict(models[trained_model],
                     scaler_transform(scaler, feature_vector(ret.features))) < 0
    /\ ret.value = Some(0)

\* the row's four square-footage fields are all absent or 0
SqftAbsentOrZero(r) ==
    \A v \in {r.total_square_feet, r.extracted_data.total_square_feet,
              r.extracted_data.square_footage, r.extracted_data.square_feet} :
        v = Null \/ v = Num(0)

\* C9: a row whose square footage is 0 or absent in every consulted field is
\* rejected (None), and every record returned has total_sqft > 0.
C9_RejectsMissingSqft ==
    parsed.done =>
        /\ SqftAbsentOrZero(db_row) => parsed.value = None
        /\ parsed.value # None => parsed.value[1].total_sqft > 0

C9_Witness ==
    /\ parsed.done
    /\ db_row.total_square_feet = Num(0)
    /\ SqftAbsentOrZero(db_row)
    /\ db_row.comparables # <<>>
    /\ parsed.value = None

\* the comparables consulted, and the positive prices they give after coercion
ConsultedComparables(r) ==
    IF r.comparables # <<>> THEN r.comparables
    ELSE r.extracted_data.market_insights.comparable_properties

PositivePrices(r) ==
    LET cs == ConsultedComparables(r)
        ix == {i \in 1..Len(cs) : comparable_price(cs[i]) # None}
    IN  [i \in ix |-> comparable_price(cs[i])[1]]

\* the k-th smallest value of a family of numbers, by counting
KthSmallest(f, k) ==
    CHOOSE x \in {f[i] : i \in DOMAIN f} :
        /\ Cardinality({i \in DOMAIN f : f[i] < x}) < k
        /\ Cardinality({i \in DOMAIN f : f[i] <= x}) >= k

MedianOf(f) ==
    LET n == Cardinality(DOMAIN f)
    IN  IF n % 2 = 1 THEN KthSmallest(f, (n + 1) \div 2)
        ELSE (KthSmallest(f, n \div 2) + KthSmallest(f, n \div 2 + 1)) \div 2

EstimatePositive(r) ==
    estimated_value_price(r.extracted_data.market_insights.price_estimate.estimated_value)

\* C10: a returned record's sale_price is the median of the positive
\* comparable prices when there is one; otherwise the estimated value when it is
\* present and positive; otherwise None.  A row with a usable square footage is
\* returned whatever its price resolves to.
C10_SalePricePriority ==
    parsed.done =>
        /\ ~total_sqft_rejected(resolve_total_sqft(db_row)) => parsed.value # None
        /\ parsed.value # None =>
             parsed.value[1].sale_price =
                IF DOMAIN PositivePrices(db_row) # {}
                THEN Some(MedianOf(PositivePrices(db_row)))
                ELSE IF EstimatePositive(db_row) # None
                     THEN EstimatePositive(db_row)
                     ELSE None

\* two positive comparable prices among discarded ones, with a positive
\* estimate that must not be used
C10_Witness ==
    /\ parsed.done
    /\ parsed.value # None
    /\ Cardinality(DOMAIN PositivePrices(db_row)) = 2
    /\ EstimatePositive(db_row) # None
    /\ parsed.value[1].sale_price = Some(320000)

\* a row kept with no price at all
C10_WitnessNone ==
    /\ parsed.done
    /\ parsed.value # None
    /\ db_row.comparables # <<>>
    /\ parsed.value[1].sale_price = None

\* C2: with one caller training and another predicting on the same instance,
\* every prediction is computed with a scaler and an estimator fitted by the
\* same training call.
C2_PredictionOfOneVintage ==
    (p_ret.op = "predict_price" /\ p_ret.value # None)
        => p_ret.scaler_call = p_ret.model_call

\* the payloads of a batch that _parse_property_row turns into a record
UsablePayloads(rows) ==
    SelectSeq([i \in 1..Len(rows) |-> unwrap(rows[i])],
              LAMBDA p : IsRow(p) /\ ~total_sqft_rejected(resolve_total_sqft(p)))

\* C11: when at least min_properties rows of the batch are usable,
\* extract_property_features does not raise and returns exactly the usable
\* rows' feature records, in the order of the rows; no unusable row adds a
\* record or removes one.
C11_UnusableRowAffectsOnlyItself ==
    (/\ extracted.done
     /\ db_rows.db = "ok"
     /\ Len(UsablePayloads(db_rows.data)) >= extracted.min_properties)
    => /\ extracted.outcome = "list"
       /\ extracted.value =
            [i \in 1..Len(UsablePayloads(db_rows.data)) |->
                Val(parse_property_row(UsablePayloads(db_rows.data)[i]))]

\* a batch of a usable row, an unusable one and a second usable row gives the
\* two usable rows' records in that order
C11_Witness ==
    /\ extracted.done
    /\ db_rows = DbReturns(<<RowA, RowNoSqft, [execute_sql |-> RowB]>>)
    /\ extracted.min_properties = 2
    /\ extracted.outcome = "list"
    /\ Len(extracted.value) = 2
    /\ extracted.value[1].property_id = "p1"
    /\ extracted.value[2].property_id = "p2"

\* the property_ids of a batch are pairwise distinct
DistinctIds(features_list) ==
    \A i, k \in 1..Len(features_list) :
        features_list[i].property_id = features_list[k].property_id => i = k

PricedIds(features_list) ==
    {features_list[i].property_id : i \in
        {i \in 1..Len(features_list) :
            /\ features_list[i].sale_price # None
            /\ features_list[i].sale_price[1] > 0}}

\* C12: after a successful training over records with pairwise distinct
\* property_id, the keys of predictions are exactly the property_ids of the
\* records with a positive sale_price.
C12_PredictionForEveryPricedRecord ==
    (/\ ret.op = "build"
     /\ ret.outcome = "results"
     /\ DistinctIds(ret.features_list))
    => DOMAIN ret.predictions = PricedIds(ret.features_list)

\* C13: every RegressionResults, of any of the three model types and any
\* training input, has feature_importance values that sum to 1 (FP in fixed
\* point, within the rounding of one unit per feature).
C13_ImportanceSumsToOne ==
    (ret.op = "build" /\ ret.outcome = "results")
    => /\ ~ret.feature_importance.nan
       /\ Abs(SumSeq(ret.feature_importance.values) - FP) <= NumFeatures

\* C14: compare_properties returns a ComparisonResult for every pair of
\* records, untrained or trained with any model type; a prediction of None
\* counts as a price of 0, so the price difference is that of the two prices
\* with None read as 0.
C14_ComparisonAlwaysCompletes ==
    comparison.done =>
        /\ comparison.result.outcome = "ComparisonResult"
        /\ comparison.result.predicted_price_diff =
              (IF comparison.predicted_a = None THEN 0 ELSE comparison.predicted_a[1])
                - (IF comparison.predicted_b = None THEN 0 ELSE comparison.predicted_b[1])

\* an untrained instance: both predictions are None and the comparison is made
C14_Witness ==
    /\ comparison.done
    /\ trained_model = NoneRef
    /\ comparison.predicted_a = None
    /\ comparison.predicted_b = None
    /\ comparison.property_a.property_id = "a"
    /\ comparison.property_b.property_id = "b"
    /\ comparison.result.outcome = "ComparisonResult"
    /\ comparison.result.predicted_price_diff = 0

\* C14 also holds on every trained instance
C14_WitnessTrained ==
    /\ comparison.done
    /\ trained_model = "random_forest"
    /\ comparison.result.outcome = "ComparisonResult"
    /\ comparison.result.predicted_price_diff # 0

\* the comparison of the same pair by an instance that was never trained
UntrainedComparison(property_a, property_b) ==
    compare_properties(NoneRef, [k \in ModelTypes |-> UnfittedModel(k)], UnfittedScaler,
                       <<>>, property_a, property_b)

\* C15: bedroom_impact, bathroom_impact and amenity_impact depend on the two
\* records only: whatever the instance was trained on, they are the ones an
\* untrained instance reports for the same pair, and so they are never
\* adjusted to the predicted price difference.
C15_HeuristicImpactsIndependentOfModel ==
    comparison.done =>
        LET u == UntrainedComparison(comparison.property_a, comparison.property_b)
        IN  /\ comparison.result.bedroom_impact = u.bedroom_impact
            /\ comparison.result.bathroom_impact = u.bathroom_impact
            /\ comparison.result.amenity_impact = u.amenity_impact

\* a trained instance whose four impacts do not add up to the predicted
\* price difference
C15_Witness ==
    /\ comparison.done
    /\ trained_model = "linear"
    /\ comparison.property_a.property_id = "b"
    /\ comparison.property_b.property_id = "a"
    /\ comparison.result.predicted_price_diff # 0
    /\ comparison.result.bedroom_impact = 15000
    /\ comparison.result.bathroom_impact = 10000
    /\ comparison.result.amenity_impact = 20000
    /\ comparison.result.sqft_impact + comparison.result.bedroom_impact
         + comparison.result.bathroom_impact + comparison.result.amenity_impact
       # comparison.result.predicted_price_diff

\* C16: comparing a record with itself, in any model state, gives
\* bedroom_diff, bathroom_diff, sqft_diff and price_per_sqft_diff of 0 and a
\* predicted price difference of less than 1 in absolute value.
C16_SelfComparisonIsZero ==
    (comparison.done /\ comparison.property_a = comparison.property_b)
    => /\ comparison.result.bedroom_diff = 0
       /\ comparison.result.bathroom_diff = 0
       /\ comparison.result.sqft_diff = 0
       /\ comparison.result.price_per_sqft_diff = 0
       /\ Abs(comparison.result.predicted_price_diff) < 1

\* a trained instance compares a record of positive price with itself
C16_Witness ==
    /\ comparison.done
    /\ trained_model = "ridge"
    /\ comparison.property_a = comparison.property_b
    /\ comparison.property_a.property_id = "b"
    /\ comparison.predicted_a # None
    /\ comparison.predicted_a[1] > 0
    /\ comparison.result.price_per_sqft_diff = 0
    /\ comparison.result.predicted_price_diff = 0

\* C17: the recommendation is one of four strings, chosen by first match with
\* strict comparisons: a price difference of less than 10000 in absolute value
\* gives 'similarly valued' whatever the per-sqft difference; from 10000 on, a
\* per-sqft difference above 20 favours A, one below -20 favours B, and one
\* from -20 to 20, both included, gives 'similar value per square foot'.
C17_RecommendationFirstMatch ==
    comparison.done =>
        LET pd == comparison.price_diff
            ps == comparison.price_per_sqft_diff
            r == comparison.recommendation
        IN  /\ r \in {SimilarlyValued, FavoursA, FavoursB, SimilarPerSqft}
            /\ (pd > -10000 /\ pd < 10000) => r = SimilarlyValued
            /\ ((pd <= -10000 \/ pd >= 10000) /\ ps > 20 * FP) => r = FavoursA
            /\ ((pd <= -10000 \/ pd >= 10000) /\ ps < -20 * FP) => r = FavoursB
            /\ ((pd <= -10000 \/ pd >= 10000) /\ ps >= -20 * FP /\ ps <= 20 * FP)
                  => r = SimilarPerSqft

\* a price difference of exactly 10000 with a per-sqft difference of exactly 20
C17_Witness ==
    /\ comparison.done
    /\ comparison.price_diff = 10000
    /\ comparison.price_per_sqft_diff = 20 * FP
    /\ comparison.recommendation = SimilarPerSqft

\* C18: every successful answer of the predict endpoint carries exactly one
\* confidence bucket: 'high' for a confidence of 0.9 or more, 'medium' for one
\* of 0.7 or more and less than 0.9, 'low' for anything less (confidence in
\* hundredths).
C18_ConfidenceBuckets ==
    (response.status = 200 /\ response.route = "predict")
    => LET c == response.property.features.confidence
       IN  /\ response.confidence \in {"high", "medium", "low"}
           /\ response.confidence = "high" <=> c >= 90
           /\ response.confidence = "medium" <=> (c >= 70 /\ c < 90)
           /\ response.confidence = "low" <=> c < 70

\* a prediction for a record whose confidence is exactly 0.9
C18_Witness ==
    /\ response.status = 200
    /\ response.route = "predict"
    /\ response.property.features.confidence = 90
    /\ response.confidence = "high"

\* and one for a record whose confidence is exactly 0.7
C18_WitnessMedium ==
    /\ response.status = 200
    /\ response.route = "predict"
    /\ response.property.features.confidence = 70
    /\ response.confidence = "medium"

\* C19: when training ends for want of data (the extraction gives no
\* records, or build_room_dimension_model returns None), the train endpoint
\* answers with a status from 400 to 499.
C19_InsufficientDataIs400 ==
    (/\ response.status # 0
     /\ response.route = "train"
     /\ response.model_type \in ModelTypes
     /\ (response.extracted = 0 \/ response.build = "None"))
    => (response.status >= 400 /\ response.status <= 499)

\* C20: training 'ridge' on the 5-record monotonic set returns results whose
\* r2_score is a number (not NaN) and at least 0.
C20_RidgeMonotonicR2 ==
    (/\ ret.op = "build"
     /\ ret.features_list = Mono5
     /\ ret.requested = "ridge")
    => /\ ret.outcome = "results"
       /\ ~ret.r2_score.nan
       /\ ret.r2_score.value >= 0

\* the two records of the monotonicity test: same type, 1000 and 2000 sqft
Small1000 == PropertyFeatures("q1", 1000, None)
Large2000 == PropertyFeatures("q2", 2000, None)

\* C21 as stated: once trained on a batch whose sale_price increases with
\* total_sqft, the prediction for the 2000-sqft record is strictly greater
\* than the prediction for the 1000-sqft record.
C21_LargerPredictsStrictlyHigher ==
    trained_model # NoneRef =>
        Val(predict_price(trained_model, models, scaler, Large2000))
          > Val(predict_price(trained_model, models, scaler, Small1000))

\* C21 amended: the prediction for the 2000-sqft record is never below the
\* one for the 1000-sqft record, and it is strictly greater when the stored
\* estimator is linear or ridge and the 2000-sqft prediction is positive.
C21_LargerPredictsNoLower ==
    trained_model # NoneRef =>
        LET small == Val(predict_price(trained_model, models, scaler, Small1000))
            large == Val(predict_price(trained_model, models, scaler, Large2000))
        IN  /\ large >= small
            /\ (has_coef(models[trained_model]) /\ large > 0) => large > small

\* trained on the large homes, the linear estimator's predictions for both
\* records are clamped to 0, and predict_price has answered for the larger
C21_Witness ==
    /\ trained_model = "linear"
    /\ scaler.fittedBy = models["linear"].fittedBy
    /\ ret.op = "predict_price"
    /\ ret.features = Large2000
    /\ ret.value = Some(0)
    /\ predict_price(trained_model, models, scaler, Small1000) = Some(0)

\* trained on the 1000..1800 sqft homes, the larger record predicts higher
C21_WitnessStrict ==
    /\ trained_model = "ridge"
    /\ ret.op = "predict_price"
    /\ ret.features = Large2000
    /\ Val(ret.value) > Val(predict_price(trained_model, models, scaler, Small1000))
    /\ Val(predict_price(trained_model, models, scaler, Small1000)) > 0

\* C22: column j of the vector predict_price builds, and of every row
\* _prepare_feature_matrix builds, is the feature named by entry j of the
\* feature names, which are the twelve names in the stated order; so the
\* index of 'total_sqft' that calculate_sqft_impact uses is the
\* square-footage column of the scaler and of the estimator.
C22_ColumnsAligned ==
    /\ ret.op = "predict_price" =>
          /\ Len(feature_vector(ret.features)) = 12
          /\ \A j \in 1..12 : feature_vector(ret.features)[j] = ret.features[FeatureNames[j]]
    /\ LET m == prepare_feature_matrix(ProbeBatch)
       IN  /\ m.feature_names =
                <<"total_sqft", "bedrooms", "bathrooms", "room_count", "avg_room_sqft",
                  "largest_room_sqft", "has_garage", "has_fireplace", "has_balcony",
                  "has_closets", "num_doors", "num_windows">>
           /\ \A i \in 1..Len(ProbeBatch) :
                /\ Len(m.X[i]) = 12
                /\ \A j \in 1..12 : m.X[i][j] = ProbeBatch[i][m.feature_names[j]]
    /\ trained_model # NoneRef =>
          LET sqft_idx == IndexOf(feature_names, "total_sqft")
          IN  /\ feature_names = prepare_feature_matrix(ProbeBatch).feature_names
              /\ scaler.mean_[sqft_idx] >= 1000
              /\ scaler.mean_[sqft_idx] <= 1800
              /\ \A j \in 1..12 : j # sqft_idx => scaler.mean_[j] < 1000
              /\ has_coef(models[trained_model]) =>
                    /\ models[trained_model].coef_[sqft_idx] > 0
                    /\ \A j \in 1..12 : j # sqft_idx => models[trained_model].coef_[j] = 0

\* predict_price has answered for a probe on an instance trained as linear
C22_Witness ==
    /\ trained_model = "linear"
    /\ ret.op = "predict_price"
    /\ ret.features = Probe("f", "has_fireplace")
    /\ ret.value # None
    /\ feature_vector(ret.features)[8] = 1
    /\ feature_vector(ret.features)[1] = 1500

\* the four fields consulted for the square footage, in order
SqftFields(r) ==
    <<r.total_square_feet, r.extracted_data.total_square_feet,
      r.extracted_data.square_footage, r.extracted_data.square_feet>>

\* the positive number a field holds, numeric strings read by their digits
HoldsPositive(v) == v.t \in {"num", "str"} /\ to_int(v) > 0

\* C23: the square footage is the first of the measurement field and
\* extracted_data's total_square_feet, square_footage and square_feet that
\* gives a value, numeric strings being read by their digits; the row is
\* rejected exactly when none of the four fields holds a positive number.
C23_SqftFallbackOrder ==
    parsed.done =>
        LET fields == SqftFields(db_row)
            positive == {i \in 1..4 : HoldsPositive(fields[i])}
        IN  IF positive = {} THEN parsed.value = None
            ELSE /\ parsed.value # None
                 /\ parsed.value[1].total_sqft =
                        to_int(fields[CHOOSE i \in positive : \A k \in positive : i <= k])

\* the measurement rooms with a positive sqft
PositiveRooms(r) ==
    {i \in 1..Len(r.rooms) :
        /\ r.rooms[i].t = "dict"
        /\ r.rooms[i].sqft.t = "num"
        /\ r.rooms[i].sqft.n > 0}

\* C24: room_count is the number of measurement rooms with a positive sqft,
\* avg_room_sqft their mean, largest_room_sqft and smallest_room_sqft their
\* maximum and minimum; all four are 0 when no room has a positive sqft.
C24_RoomStatistics ==
    (parsed.done /\ parsed.value # None) =>
        LET f == parsed.value[1]
            ix == PositiveRooms(db_row)
            area == [i \in ix |-> db_row.rooms[i].sqft.n]
            total == SumSeq([k \in 1..Len(db_row.rooms) |-> IF k \in ix THEN area[k] ELSE 0])
        IN  IF ix = {}
            THEN /\ f.room_count = 0
                 /\ f.avg_room_sqft = 0
                 /\ f.largest_room_sqft = 0
                 /\ f.smallest_room_sqft = 0
            ELSE /\ f.room_count = Cardinality(ix)
                 /\ f.avg_room_sqft = total \div Cardinality(ix)
                 /\ f.largest_room_sqft = KthSmallest(area, Cardinality(ix))
                 /\ f.smallest_room_sqft = KthSmallest(area, 1)

\* the token occurs, in any letter case, in the type or in an entry of the
\* feature list of some room
TokenInRooms(token, room_list) ==
    \E i \in 1..Len(room_list) :
        /\ room_list[i].t = "dict"
        /\ \/ IsSubstring(token, Lower(room_list[i].type))
           \/ \E k \in 1..Len(room_list[i].features) :
                 IsSubstring(token, Lower(room_list[i].features[k]))

\* C25: has_garage, has_fireplace and has_balcony are 1 exactly when the
\* token occurs, in any letter case, in the type or in the feature list of at
\* least one room of extracted_data, and 0 otherwise.
C25_AmenityFlags ==
    (parsed.done /\ parsed.value # None) =>
        LET f == parsed.value[1]
            room_list == db_row.extracted_data.rooms
        IN  /\ f.has_garage = Bit(TokenInRooms(GARAGE, room_list))
            /\ f.has_fireplace = Bit(TokenInRooms(FIREPLACE, room_list))
            /\ f.has_balcony = Bit(TokenInRooms(BALCONY, room_list))

\* C26: the four impacts of a comparison are sqft_diff times the result of
\* calculate_sqft_impact (0 when that is None), bedroom_diff times 15000,
\* bathroom_diff times 10000, and 20000 / 5000 / 3000 times the garage /
\* fireplace / balcony difference, each difference being A minus B.
C26_ImpactFormulas ==
    (comparison.done /\ comparison.result.outcome = "ComparisonResult") =>
        LET a == comparison.property_a
            b == comparison.property_b
            r == comparison.result
            impact == calculate_sqft_impact(trained_model, models, scaler, feature_names)
        IN  /\ r.sqft_impact =
                  (a.total_sqft - b.total_sqft) * (IF impact = None THEN 0 ELSE impact[1])
            /\ r.bedroom_impact = (a.bedrooms - b.bedrooms) * 15000
            /\ r.bathroom_impact = (a.bathrooms - b.bathrooms) * 10000
            /\ r.amenity_impact =
                  20000 * (a.has_garage - b.has_garage)
                    + 5000 * (a.has_fireplace - b.has_fireplace)
                    + 3000 * (a.has_balcony - b.has_balcony)

\* a garage on one side, a fireplace and a balcony on the other, under a
\* linear model
C26_Witness ==
    /\ comparison.done
    /\ trained_model = "linear"
    /\ comparison.property_a.property_id = "b"
    /\ comparison.property_b.property_id = "c"
    /\ comparison.result.outcome = "ComparisonResult"
    /\ comparison.result.amenity_impact = 12000
    /\ comparison.result.bedroom_impact # 0
    /\ comparison.result.sqft_impact > 0

\* C27: a build call that returns None leaves trained_model,
\* trained_model_type, feature_names, the estimators and the fitted scaler as
\* they were, so predict_price and calculate_sqft_impact answer after the call
\* what they answered before it.
C27_NoneLeavesTrainedState ==
    [][(calls' = calls + 1 /\ ret'.outcome = "None") =>
          /\ trained_model' = trained_model
          /\ trained_model_type' = trained_model_type
          /\ feature_names' = feature_names
          /\ scaler' = scaler
          /\ models' = models
          /\ \A q \in Queries :
                predict_price(trained_model', models', scaler', q)
                  = predict_price(trained_model, models, scaler, q)
          /\ calculate_sqft_impact(trained_model', models', scaler', feature_names')
                = calculate_sqft_impact(trained_model, models, scaler, feature_names)]_vars

\* a build has returned None on an instance an earlier build had trained
C27_Witness ==
    /\ ret.op = "build"
    /\ ret.outcome = "None"
    /\ ret.call = 2
    /\ trained_model = "ridge"
    /\ scaler.fitted
    /\ predict_price(trained_model, models, scaler, Large2000) # None

\* C28: no request shares trained state with another: whatever requests were
\* received and answered before or meanwhile, a predict request (for a
\* property that exists) or a sqft-impact request without train_model=true
\* is answered 400 with 'Model not trained', its instance untrained, also
\* after a train request has succeeded; and every request starts from an
\* untrained instance.
C28_RequestsShareNoTrainedState ==
    /\ trained_model = NoneRef
    /\ \A i \in 1..Len(requests) :
          /\ ~requests[i].instance_trained
          /\ (/\ requests[i].pc = "answered"
              /\ requests[i].route \in {"predict", "sqft-impact"}
              /\ ~requests[i].train_model
              /\ requests[i].found)
             => /\ requests[i].answer.status = 400
                /\ requests[i].answer.message = NotTrainedMessage
                /\ ~requests[i].answer.model_trained

\* a train request was answered 200, and a predict request without
\* train_model received after that was answered 400
C28_Witness ==
    /\ Len(requests) = 2
    /\ requests[1].route = "train"
    /\ requests[1].answer.status = 200
    /\ requests[1].answer.model_trained
    /\ requests[2].route = "predict"
    /\ ~requests[2].train_model
    /\ requests[2].found
    /\ requests[2].after_training
    /\ requests[2].pc = "answered"
    /\ requests[2].answer.status = 400

\* a sqft-impact request that trains first is answered 200 while a request
\* without train_model is still being handled
C28_WitnessInterleaved ==
    /\ Len(requests) = 2
    /\ requests[1].route = "sqft-impact"
    /\ ~requests[1].train_model
    /\ requests[1].pc = "handling"
    /\ requests[2].route = "sqft-impact"
    /\ requests[2].train_model
    /\ requests[2].answer.status = 200

\* C29: compare_properties on an instance that holds no trained model
\* reports a predicted price difference, a price-per-sqft difference and a
\* sqft impact of 0 and the 'similarly valued' recommendation, whatever the
\* two records are, while the bedroom, bathroom and amenity impacts are those
\* of the records' differences.
C29_UntrainedComparisonIsNeutral ==
    (comparison.done /\ trained_model = NoneRef) =>
        LET a == comparison.property_a
            b == comparison.property_b
            r == comparison.result
        IN  /\ r.outcome = "ComparisonResult"
            /\ r.predicted_price_diff = 0
            /\ r.price_per_sqft_diff = 0
            /\ r.sqft_impact = 0
            /\ r.recommendation = SimilarlyValued
            /\ r.bedroom_impact = 15000 * (a.bedrooms - b.bedrooms)
            /\ r.bathroom_impact = 10000 * (a.bathrooms - b.bathrooms)
            /\ r.amenity_impact = amenity_diff(a, b)

\* an instance on which build was never called compares two records that
\* differ in size, rooms and amenities
C29_Witness ==
    /\ comparison.done
    /\ calls = 0
    /\ trained_model = NoneRef
    /\ comparison.property_a.property_id = "d"
    /\ comparison.property_b.property_id = "b"
    /\ comparison.result.sqft_diff = -1000
    /\ comparison.result.sqft_impact = 0
    /\ comparison.result.bedroom_impact # 0
    /\ comparison.result.bathroom_impact # 0
    /\ comparison.result.amenity_impact = -20000
    /\ comparison.result.recommendation = SimilarlyValued

\* the part the summary must hold for a difference: none when it is 0
ExpectedDirection(diff) == IF diff > 0 THEN "more" ELSE "fewer"

\* C30: the summary is 'Properties are similar in size and features' exactly
\* when bedroom_diff, bathroom_diff and sqft_diff are all 0; otherwise it
\* has one part per non-zero difference, in the order bedrooms, bathrooms,
\* sqft, each saying 'more' when A's value is the larger and 'fewer' when it
\* is the smaller, followed by the absolute predicted price difference.
C30_SummaryParts ==
    comparison.done =>
        LET s == comparison.comparison_summary
            diffs == <<comparison.bedroom_diff, comparison.bathroom_diff, comparison.sqft_diff>>
            nouns == <<{"bedroom", "bedrooms"}, {"bathroom", "bathrooms"}, {"sqft"}>>
            nonzero == {i \in 1..3 : diffs[i] # 0}
            rank(i) == Cardinality({k \in nonzero : k <= i})
        IN  /\ (s.sentence = "Properties are similar in size and features") <=> (nonzero = {})
            /\ Len(s.parts) = Cardinality(nonzero)
            /\ \A i \in nonzero :
                  /\ s.parts[rank(i)].noun \in nouns[i]
                  /\ s.parts[rank(i)].direction = ExpectedDirection(diffs[i])
            /\ nonzero # {} =>
                  /\ s.sentence = "Property A has"
                  /\ s.amount = Abs(comparison.price_diff)

\* fewer bedrooms and more square feet, the bathrooms equal: two parts
C30_Witness ==
    /\ comparison.done
    /\ comparison.bedroom_diff = -2
    /\ comparison.bathroom_diff = 0
    /\ comparison.sqft_diff = 1500
    /\ comparison.price_diff = -25000
    /\ Len(comparison.comparison_summary.parts) = 2
    /\ comparison.comparison_summary.parts[1].direction = "fewer"
    /\ comparison.comparison_summary.parts[2].direction = "more"
    /\ comparison.comparison_summary.amount = 25000

\* no difference in rooms or size, whatever the price difference
C30_WitnessSimilar ==
    /\ comparison.done
    /\ comparison.bedroom_diff = 0
    /\ comparison.bathroom_diff = 0
    /\ comparison.sqft_diff = 0
    /\ comparison.price_diff = 12000
    /\ comparison.comparison_summary.sentence = "Properties are similar in size and features"

=============================================================================
